---------------------------- MODULE Spec2Model ----------------------------
(***************************************************************************)
(* Hierarchical resource management core of encryption-service-ui:        *)
(* the Config Store (config.rs), the resource tree (models.rs) and the    *)
(* three Entity Services (services.rs).                                   *)
(*                                                                         *)
(* The store is one file.  Its content is modelled as a sequence of       *)
(* tokens (the JSON text with the field names elided, every field in the  *)
(* order of the struct declaration), so that a truncated or a mixed file  *)
(* is a value of the model and parsing it can fail.  Every Entity Service *)
(* operation is load_config, an in-memory mutation, save_config; the      *)
(* model steps through the system calls of these (read, File::create,     *)
(* write_all) so that callers interleave where processes do.              *)
(*                                                                         *)
(* Scalar fields no service reads or writes (description, url,            *)
(* docker_run_params, config, logs, agent_installed, instance_type,       *)
(* timeout, retries, created_at, updated_at) are carried by `name`.       *)
(***************************************************************************)
EXTENDS Naturals, Sequences, FiniteSets

\* ------------------------------------------------------------ bounds

\* Operations the first of two concurrent callers may issue in one behaviour
\* of Spec.
MaxOpsConc == 1
\* Operations the single caller may issue in one behaviour of SpecSeq.
MaxOpsSeq == 1
\* Operations the single caller may issue one after the other in one
\* behaviour of SpecRun.
MaxOpsRun == 2
\* Operations the single caller may issue one after the other in one
\* behaviour of SpecEdit.
MaxOpsEdit == 2
\* Calls of the scenario the single caller of SpecScenario goes through.
MaxOpsScenario == 6
\* ConfigManager calls the single caller may issue one after the other in one
\* behaviour of SpecManager.
MaxOpsManager == 2
\* I/O failures the environment may inject in one behaviour.
MaxFaults == 1

\* ------------------------------------------------------------ data model

GroupStatus == {"Running", "Stopped", "Starting", "Stopping", "Error"}

ContainerStatus == {"Running", "Stopped", "Starting", "Stopping", "Error"}

HealthStatus == {"Healthy", "Unhealthy", "Unknown", "Checking"}

Transient == {"Starting", "Stopping"}

BackendContainer(id, name, status, health) ==
    [id |-> id, name |-> name, status |-> status, health |-> health]

MiddlewareContainer(id, name, backends, status, health) ==
    [id |-> id, name |-> name, backend_containers |-> backends,
     status |-> status, health |-> health]

BusinessGroup(id, name, middlewares, backends, status) ==
    [id |-> id, name |-> name, middlewares |-> middlewares,
     backend_containers |-> backends, status |-> status]

\* AppState flattened into Config: business_groups and the three selections.
Config(groups, sel_g, sel_m, sel_b, last_opened, theme, auto_save, save_interval) ==
    [business_groups |-> groups,
     selected_group_id |-> sel_g,
     selected_middleware_id |-> sel_m,
     selected_backend_id |-> sel_b,
     last_opened |-> last_opened,
     theme |-> theme,
     auto_save |-> auto_save,
     save_interval |-> save_interval]

\* Config::default() evaluated at time `now`; None is the token "null".
ConfigDefault(now) ==
    Config(<< >>, "null", "null", "null", now, "dark", "true", "30")

\* ------------------------------------------------------------ serde_json

\* With(v, F) is F(v) with v evaluated once: TLC evaluates a LET definition
\* or an operator argument again at each use when it measures coverage, and
\* a bound variable once.
With(v, F(_)) == CHOOSE r \in {F(x) : x \in {v}} : TRUE

Punct == {"{", "}", "[", "]"}

BoolTokens == {"true", "false"}

\* The concatenation of the sequences f[1], ..., f[n].
RECURSIVE Concat(_, _)
Concat(f, n) == IF n = 0 THEN << >> ELSE Concat(f, n - 1) \o f[n]

Flatten(ss) == With(ss, LAMBDA f : Concat(f, Len(f)))

SerBackend(b) == <<"{", b.id, b.name, b.status, b.health, "}">>

SerBackendList(bs) ==
    <<"[">> \o Flatten([i \in 1..Len(bs) |-> SerBackend(bs[i])]) \o <<"]">>

SerMiddleware(m) ==
    <<"{", m.id, m.name>> \o SerBackendList(m.backend_containers)
        \o <<m.status, m.health, "}">>

SerMiddlewareList(ms) ==
    <<"[">> \o Flatten([i \in 1..Len(ms) |-> SerMiddleware(ms[i])]) \o <<"]">>

SerGroup(g) ==
    <<"{", g.id, g.name>> \o SerMiddlewareList(g.middlewares)
        \o SerBackendList(g.backend_containers) \o <<g.status, "}">>

SerGroupList(gs) ==
    <<"[">> \o Flatten([i \in 1..Len(gs) |-> SerGroup(gs[i])]) \o <<"]">>

\* serde_json::to_string_pretty(config)
Serialize(c) ==
    <<"{">> \o SerGroupList(c.business_groups)
        \o <<c.selected_group_id, c.selected_middleware_id, c.selected_backend_id,
             c.last_opened, c.theme, c.auto_save, c.save_interval, "}">>

\* A parse result: ok, the value, and the tokens left.
PFail == [ok |-> FALSE, val |-> << >>, rest |-> << >>]

POk(v, rest) == [ok |-> TRUE, val |-> v, rest |-> rest]

IsStr(t) == t \notin Punct

ParseBackend(s) ==
    IF /\ Len(s) >= 6
       /\ s[1] = "{" /\ IsStr(s[2]) /\ IsStr(s[3])
       /\ s[4] \in ContainerStatus /\ s[5] \in HealthStatus /\ s[6] = "}"
    THEN POk(BackendContainer(s[2], s[3], s[4], s[5]), SubSeq(s, 7, Len(s)))
    ELSE PFail

\* The elements of a list up to its "]"; st = <<tokens, elements so far>>.
RECURSIVE ParseBackendItems(_)
ParseBackendItems(st) ==
    IF st[1] = << >> THEN PFail
    ELSE IF Head(st[1]) = "]" THEN POk(st[2], Tail(st[1]))
    ELSE With(ParseBackend(st[1]), LAMBDA r :
            IF r.ok
            THEN With(<<r.rest, Append(st[2], r.val)>>,
                      LAMBDA nx : ParseBackendItems(nx))
            ELSE PFail)

ParseBackendList(s) ==
    IF s # << >> /\ Head(s) = "["
    THEN ParseBackendItems(<<Tail(s), << >> >>)
    ELSE PFail

ParseMiddleware(s) ==
    IF Len(s) >= 3 /\ s[1] = "{" /\ IsStr(s[2]) /\ IsStr(s[3])
    THEN With(ParseBackendList(SubSeq(s, 4, Len(s))), LAMBDA bl :
            IF /\ bl.ok /\ Len(bl.rest) >= 3
               /\ bl.rest[1] \in ContainerStatus
               /\ bl.rest[2] \in HealthStatus
               /\ bl.rest[3] = "}"
            THEN POk(MiddlewareContainer(s[2], s[3], bl.val, bl.rest[1], bl.rest[2]),
                     SubSeq(bl.rest, 4, Len(bl.rest)))
            ELSE PFail)
    ELSE PFail

RECURSIVE ParseMiddlewareItems(_)
ParseMiddlewareItems(st) ==
    IF st[1] = << >> THEN PFail
    ELSE IF Head(st[1]) = "]" THEN POk(st[2], Tail(st[1]))
    ELSE With(ParseMiddleware(st[1]), LAMBDA r :
            IF r.ok
            THEN With(<<r.rest, Append(st[2], r.val)>>,
                      LAMBDA nx : ParseMiddlewareItems(nx))
            ELSE PFail)

ParseMiddlewareList(s) ==
    IF s # << >> /\ Head(s) = "["
    THEN ParseMiddlewareItems(<<Tail(s), << >> >>)
    ELSE PFail

ParseGroup(s) ==
    IF Len(s) >= 3 /\ s[1] = "{" /\ IsStr(s[2]) /\ IsStr(s[3])
    THEN With(ParseMiddlewareList(SubSeq(s, 4, Len(s))), LAMBDA ml :
            IF ml.ok
            THEN With(ParseBackendList(ml.rest), LAMBDA bl :
                    IF /\ bl.ok /\ Len(bl.rest) >= 2
                       /\ bl.rest[1] \in GroupStatus
                       /\ bl.rest[2] = "}"
                    THEN POk(BusinessGroup(s[2], s[3], ml.val, bl.val, bl.rest[1]),
                             SubSeq(bl.rest, 3, Len(bl.rest)))
                    ELSE PFail)
            ELSE PFail)
    ELSE PFail

RECURSIVE ParseGroupItems(_)
ParseGroupItems(st) ==
    IF st[1] = << >> THEN PFail
    ELSE IF Head(st[1]) = "]" THEN POk(st[2], Tail(st[1]))
    ELSE With(ParseGroup(st[1]), LAMBDA r :
            IF r.ok
            THEN With(<<r.rest, Append(st[2], r.val)>>,
                      LAMBDA nx : ParseGroupItems(nx))
            ELSE PFail)

ParseGroupList(s) ==
    IF s # << >> /\ Head(s) = "["
    THEN ParseGroupItems(<<Tail(s), << >> >>)
    ELSE PFail

\* serde_json::from_str::<Config>(content): the whole text must be one Config
\* (trailing characters are an error).
Deserialize(content) ==
    With(content, LAMBDA s :
        IF s # << >> /\ Head(s) = "{"
        THEN With(ParseGroupList(Tail(s)), LAMBDA gl :
                IF /\ gl.ok /\ Len(gl.rest) = 8
                   /\ \A i \in 1..5 : IsStr(gl.rest[i])
                   /\ gl.rest[6] \in BoolTokens
                   /\ IsStr(gl.rest[7])
                   /\ gl.rest[8] = "}"
                THEN POk(Config(gl.val, gl.rest[1], gl.rest[2], gl.rest[3],
                                gl.rest[4], gl.rest[5], gl.rest[6], gl.rest[7]),
                         << >>)
                ELSE PFail)
        ELSE PFail)

\* ------------------------------------------------------------ Result<()>

NoResult == [kind |-> "None", level |-> "-", id |-> "-"]

Ok == [kind |-> "Ok", level |-> "-", id |-> "-"]

\* anyhow::bail!("业务组不存在: {}", id) and its middleware / backend siblings:
\* the message names one level and one identifier.
NotFound(level, id) == [kind |-> "NotFound", level |-> level, id |-> id]

\* File::open / read_to_string / File::create / write_all failed.
IoFailure(call) == [kind |-> "IoFailure", level |-> call, id |-> "-"]

\* serde_json::from_str failed.
SerializationError == [kind |-> "Serialization", level |-> "-", id |-> "-"]

\* A request of the ApiClient failed to be sent or to be answered.
RemoteCallFailure == [kind |-> "RemoteCallFailure", level |-> "send", id |-> "-"]

\* ------------------------------------------------------------ ApiClient

\* What self.client.get(&url).send() comes to: a response with its status
\* code, or no response (connection refused, timeout).
Responses ==
    {[sent |-> TRUE, status |-> code] : code \in {200, 204, 404, 500}}
        \cup {[sent |-> FALSE, status |-> 0]}

\* ApiClient::health_check on the outcome of its request: the Result and,
\* when it is Ok, the HealthStatus in it.
health_check(response) ==
    IF ~response.sent THEN [res |-> RemoteCallFailure, ret |-> << >>]
    ELSE IF response.status = 200 THEN [res |-> Ok, ret |-> <<"Healthy">>]
    ELSE [res |-> Ok, ret |-> <<"Unhealthy">>]

\* What the body of a service function does after load_config: it goes on to
\* save_config(&config), or it returns (an error, or the value of a query).
ThenSave(config) ==
    [next |-> "save", res |-> NoResult, config |-> config, ret |-> << >>]

Bail(err, config) ==
    [next |-> "return", res |-> err, config |-> config, ret |-> << >>]

Return(value, config) ==
    [next |-> "return", res |-> Ok, config |-> config, ret |-> value]

\* iter().position(|e| e.id == id) / iter_mut().find(|e| e.id == id):
\* the first index whose element has the id, 0 when there is none.
Position(list, id) ==
    IF \E i \in 1..Len(list) : list[i].id = id
    THEN CHOOSE i \in 1..Len(list) :
            /\ list[i].id = id
            /\ \A j \in 1..(i - 1) : list[j].id # id
    ELSE 0

\* A removal of the first element with the id alone.
Retain_first_only(list, id) ==
    IF Position(list, id) = 0 THEN list
    ELSE SubSeq(list, 1, Position(list, id) - 1)
             \o SubSeq(list, Position(list, id) + 1, Len(list))

\* retain(|e| e.id != id)
Retain(list, id) == SelectSeq(list, LAMBDA e : e.id # id)

\* ------------------------------------------------------------ BusinessGroupService

get_all_business_groups(config) == Return(config.business_groups, config)

\* add_business_group inserting the group at the head of the list.
add_business_group_prepends(config, group) ==
    ThenSave([config EXCEPT !.business_groups = <<group>> \o @])

add_business_group(config, group) ==
    ThenSave([config EXCEPT !.business_groups = Append(@, group)])

\* update_business_group taking the matching groups out and pushing the new
\* one at the end of the list.
update_business_group_reinserted(config, group) ==
    IF Position(config.business_groups, group.id) # 0
    THEN ThenSave([config EXCEPT
             !.business_groups = Append(Retain(@, group.id), group)])
    ELSE Bail(NotFound("group", group.id), config)

\* update_business_group that replaces the group's own fields and keeps the
\* children the stored group has.
update_business_group_keeps_children(config, group) ==
    LET index == Position(config.business_groups, group.id)
    IN  IF index # 0
        THEN ThenSave([config EXCEPT
                 !.business_groups[index] =
                     [@ EXCEPT !.name = group.name, !.status = group.status]])
        ELSE Bail(NotFound("group", group.id), config)

update_business_group(config, group) ==
    LET index == Position(config.business_groups, group.id)
    IN  IF index # 0
        THEN ThenSave([config EXCEPT !.business_groups[index] = group])
        ELSE Bail(NotFound("group", group.id), config)

\* delete_business_group that removes only the first group with the id.
delete_business_group_first_only(config, group_id) ==
    LET g == Position(config.business_groups, group_id)
    IN  ThenSave(IF g = 0 THEN config
                 ELSE [config EXCEPT !.business_groups =
                          SubSeq(@, 1, g - 1) \o SubSeq(@, g + 1, Len(@))])

\* delete_business_group reporting a group it does not find, as the updates do.
delete_business_group_strict(config, group_id) ==
    IF Position(config.business_groups, group_id) # 0
    THEN ThenSave([config EXCEPT !.business_groups = Retain(@, group_id)])
    ELSE Bail(NotFound("group", group_id), config)

delete_business_group(config, group_id) ==
    ThenSave([config EXCEPT !.business_groups = Retain(@, group_id)])

get_business_group(config, group_id) ==
    LET g == Position(config.business_groups, group_id)
    IN  Return(IF g # 0 THEN <<config.business_groups[g]>> ELSE << >>, config)

\* start_business_group without its second assignment: the group is saved
\* in status Starting.
start_business_group_stuck(config, group_id) ==
    LET g == Position(config.business_groups, group_id)
    IN  IF g # 0
        THEN ThenSave([config EXCEPT !.business_groups[g].status = "Starting"])
        ELSE Bail(NotFound("group", group_id), config)

start_business_group(config, group_id) ==
    LET g == Position(config.business_groups, group_id)
    IN  IF g # 0
        THEN LET starting == [config EXCEPT !.business_groups[g].status = "Starting"]
                 running  == [starting EXCEPT !.business_groups[g].status = "Running"]
             IN  ThenSave(running)
        ELSE Bail(NotFound("group", group_id), config)

\* stop_business_group without its else branch: when no group has the id it
\* goes on to save_config and returns its result.
stop_business_group_no_bail(config, group_id) ==
    LET g == Position(config.business_groups, group_id)
    IN  IF g # 0
        THEN ThenSave([config EXCEPT !.business_groups[g].status = "Stopped"])
        ELSE ThenSave(config)

\* stop_business_group that stops a Running group and saves any other as
\* it is.
stop_business_group_running_only(config, group_id) ==
    LET g == Position(config.business_groups, group_id)
    IN  IF g # 0
        THEN ThenSave([config EXCEPT !.business_groups[g].status =
                         IF @ = "Running" THEN "Stopped" ELSE @])
        ELSE Bail(NotFound("group", group_id), config)

stop_business_group(config, group_id) ==
    LET g == Position(config.business_groups, group_id)
    IN  IF g # 0
        THEN LET stopping == [config EXCEPT !.business_groups[g].status = "Stopping"]
                 stopped  == [stopping EXCEPT !.business_groups[g].status = "Stopped"]
             IN  ThenSave(stopped)
        ELSE Bail(NotFound("group", group_id), config)

\* ------------------------------------------------------------ MiddlewareService

add_middleware_to_group(config, group_id, middleware) ==
    LET g == Position(config.business_groups, group_id)
    IN  IF g # 0
        THEN ThenSave([config EXCEPT
                 !.business_groups[g].middlewares = Append(@, middleware)])
        ELSE Bail(NotFound("group", group_id), config)

\* update_middleware keeping the backends the stored middleware has, after
\* those of the new one.
update_middleware_keeps_backends(config, group_id, middleware) ==
    LET g == Position(config.business_groups, group_id)
    IN  IF g # 0
        THEN LET m == Position(config.business_groups[g].middlewares, middleware.id)
             IN  IF m # 0
                 THEN ThenSave([config EXCEPT !.business_groups[g].middlewares[m] =
                          [middleware EXCEPT !.backend_containers =
                              @ \o config.business_groups[g].middlewares[m].backend_containers]])
                 ELSE Bail(NotFound("middleware", middleware.id), config)
        ELSE Bail(NotFound("group", group_id), config)

update_middleware(config, group_id, middleware) ==
    LET g == Position(config.business_groups, group_id)
    IN  IF g # 0
        THEN LET index == Position(config.business_groups[g].middlewares, middleware.id)
             IN  IF index # 0
                 THEN ThenSave([config EXCEPT
                          !.business_groups[g].middlewares[index] = middleware])
                 ELSE Bail(NotFound("middleware", middleware.id), config)
        ELSE Bail(NotFound("group", group_id), config)

\* delete_middleware handing the backends of the removed middleware over to
\* the group's direct list instead of dropping them with it.
delete_middleware_keeps_backends(config, group_id, middleware_id) ==
    LET g == Position(config.business_groups, group_id)
    IN  IF g # 0
        THEN LET gone == SelectSeq(config.business_groups[g].middlewares,
                                 LAMBDA e : e.id = middleware_id)
                 orphans == Flatten([i \in 1..Len(gone) |-> gone[i].backend_containers])
             IN  ThenSave([config EXCEPT
                     !.business_groups[g] =
                         [@ EXCEPT !.middlewares = Retain(@, middleware_id),
                                   !.backend_containers = @ \o orphans]])
        ELSE Bail(NotFound("group", group_id), config)

delete_middleware(config, group_id, middleware_id) ==
    LET g == Position(config.business_groups, group_id)
    IN  IF g # 0
        THEN ThenSave([config EXCEPT
                 !.business_groups[g].middlewares = Retain(@, middleware_id)])
        ELSE Bail(NotFound("group", group_id), config)

\* start_middleware that starts the middleware's backends with it.
start_middleware_cascades(config, group_id, middleware_id) ==
    LET g == Position(config.business_groups, group_id)
    IN  IF g # 0
        THEN LET m == Position(config.business_groups[g].middlewares, middleware_id)
                 bs == config.business_groups[g].middlewares[m].backend_containers
             IN  IF m # 0
                 THEN ThenSave([config EXCEPT
                          !.business_groups[g].middlewares[m].status = "Running",
                          !.business_groups[g].middlewares[m].backend_containers =
                              [k \in 1..Len(bs) |-> [bs[k] EXCEPT !.status = "Running"]]])
                 ELSE Bail(NotFound("middleware", middleware_id), config)
        ELSE Bail(NotFound("group", group_id), config)

start_middleware(config, group_id, middleware_id) ==
    LET g == Position(config.business_groups, group_id)
    IN  IF g # 0
        THEN LET m == Position(config.business_groups[g].middlewares, middleware_id)
             IN  IF m # 0
                 THEN LET starting == [config EXCEPT
                              !.business_groups[g].middlewares[m].status = "Starting"]
                          running  == [starting EXCEPT
                              !.business_groups[g].middlewares[m].status = "Running"]
                      IN  ThenSave(running)
                 ELSE Bail(NotFound("middleware", middleware_id), config)
        ELSE Bail(NotFound("group", group_id), config)

\* stop_middleware without its second assignment: the middleware is saved in
\* status Stopping.
stop_middleware_keeps_stopping(config, group_id, middleware_id) ==
    LET g == Position(config.business_groups, group_id)
    IN  IF g # 0
        THEN LET m == Position(config.business_groups[g].middlewares, middleware_id)
             IN  IF m # 0
                 THEN ThenSave([config EXCEPT
                          !.business_groups[g].middlewares[m].status = "Stopping"])
                 ELSE Bail(NotFound("middleware", middleware_id), config)
        ELSE Bail(NotFound("group", group_id), config)

stop_middleware(config, group_id, middleware_id) ==
    LET g == Position(config.business_groups, group_id)
    IN  IF g # 0
        THEN LET m == Position(config.business_groups[g].middlewares, middleware_id)
             IN  IF m # 0
                 THEN LET stopping == [config EXCEPT
                              !.business_groups[g].middlewares[m].status = "Stopping"]
                          stopped  == [stopping EXCEPT
                              !.business_groups[g].middlewares[m].status = "Stopped"]
                      IN  ThenSave(stopped)
                 ELSE Bail(NotFound("middleware", middleware_id), config)
        ELSE Bail(NotFound("group", group_id), config)

\* ------------------------------------------------------------ BackendService
\* middleware_id is an Option<&str>: "None", or the identifier.

\* add_backend_to_middleware pushing the backend on the group's direct list.
add_backend_to_middleware_direct(config, group_id, middleware_id, backend) ==
    LET g == Position(config.business_groups, group_id)
    IN  IF g # 0
        THEN IF Position(config.business_groups[g].middlewares, middleware_id) # 0
             THEN ThenSave([config EXCEPT
                      !.business_groups[g].backend_containers = Append(@, backend)])
             ELSE Bail(NotFound("middleware", middleware_id), config)
        ELSE Bail(NotFound("group", group_id), config)

add_backend_to_middleware(config, group_id, middleware_id, backend) ==
    LET g == Position(config.business_groups, group_id)
    IN  IF g # 0
        THEN LET m == Position(config.business_groups[g].middlewares, middleware_id)
             IN  IF m # 0
                 THEN ThenSave([config EXCEPT
                          !.business_groups[g].middlewares[m].backend_containers =
                              Append(@, backend)])
                 ELSE Bail(NotFound("middleware", middleware_id), config)
        ELSE Bail(NotFound("group", group_id), config)

add_backend_to_group(config, group_id, backend) ==
    LET g == Position(config.business_groups, group_id)
    IN  IF g # 0
        THEN ThenSave([config EXCEPT
                 !.business_groups[g].backend_containers = Append(@, backend)])
        ELSE Bail(NotFound("group", group_id), config)

update_backend(config, group_id, middleware_id, backend) ==
    LET g == Position(config.business_groups, group_id)
    IN  IF g # 0
        THEN IF middleware_id # "None"
             THEN LET m == Position(config.business_groups[g].middlewares, middleware_id)
                  IN  IF m # 0
                      THEN LET index == Position(
                                   config.business_groups[g].middlewares[m].backend_containers,
                                   backend.id)
                           IN  IF index # 0
                               THEN ThenSave([config EXCEPT
                                        !.business_groups[g].middlewares[m]
                                            .backend_containers[index] = backend])
                               ELSE Bail(NotFound("backend", backend.id), config)
                      ELSE Bail(NotFound("middleware", middleware_id), config)
             ELSE LET index == Position(config.business_groups[g].backend_containers,
                                        backend.id)
                  IN  IF index # 0
                      THEN ThenSave([config EXCEPT
                               !.business_groups[g].backend_containers[index] = backend])
                      ELSE Bail(NotFound("backend", backend.id), config)
        ELSE Bail(NotFound("group", group_id), config)

\* delete_backend that removes the id from the group's direct list and from
\* the list of each of its middlewares, whichever list the call names.
delete_backend_every_list(config, group_id, middleware_id, backend_id) ==
    LET g == Position(config.business_groups, group_id)
        ms == config.business_groups[g].middlewares
    IN  IF g = 0 THEN Bail(NotFound("group", group_id), config)
        ELSE IF middleware_id # "None" /\ Position(ms, middleware_id) = 0
        THEN Bail(NotFound("middleware", middleware_id), config)
        ELSE ThenSave([config EXCEPT
                 !.business_groups[g].backend_containers = Retain(@, backend_id),
                 !.business_groups[g].middlewares =
                     [k \in 1..Len(ms) |->
                         [ms[k] EXCEPT !.backend_containers = Retain(@, backend_id)]]])

delete_backend(config, group_id, middleware_id, backend_id) ==
    LET g == Position(config.business_groups, group_id)
    IN  IF g # 0
        THEN IF middleware_id # "None"
             THEN LET m == Position(config.business_groups[g].middlewares, middleware_id)
                  IN  IF m # 0
                      THEN ThenSave([config EXCEPT
                               !.business_groups[g].middlewares[m].backend_containers =
                                   Retain(@, backend_id)])
                      ELSE Bail(NotFound("middleware", middleware_id), config)
             ELSE ThenSave([config EXCEPT
                      !.business_groups[g].backend_containers = Retain(@, backend_id)])
        ELSE Bail(NotFound("group", group_id), config)

\* start_backend that also marks the backend it starts Healthy.
start_backend_marks_healthy(config, group_id, middleware_id, backend_id) ==
    LET g == Position(config.business_groups, group_id)
    IN  IF g # 0
        THEN IF middleware_id # "None"
             THEN LET m == Position(config.business_groups[g].middlewares, middleware_id)
                  IN  IF m # 0
                      THEN LET b == Position(
                                   config.business_groups[g].middlewares[m].backend_containers,
                                   backend_id)
                           IN  IF b # 0
                               THEN ThenSave([config EXCEPT
                                        !.business_groups[g].middlewares[m]
                                            .backend_containers[b] =
                                                [@ EXCEPT !.status = "Running",
                                                          !.health = "Healthy"]])
                               ELSE Bail(NotFound("backend", backend_id), config)
                      ELSE Bail(NotFound("middleware", middleware_id), config)
             ELSE LET b == Position(config.business_groups[g].backend_containers, backend_id)
                  IN  IF b # 0
                      THEN ThenSave([config EXCEPT
                               !.business_groups[g].backend_containers[b] =
                                   [@ EXCEPT !.status = "Running", !.health = "Healthy"]])
                      ELSE Bail(NotFound("backend", backend_id), config)
        ELSE Bail(NotFound("group", group_id), config)

start_backend(config, group_id, middleware_id, backend_id) ==
    LET g == Position(config.business_groups, group_id)
    IN  IF g # 0
        THEN IF middleware_id # "None"
             THEN LET m == Position(config.business_groups[g].middlewares, middleware_id)
                  IN  IF m # 0
                      THEN LET b == Position(
                                   config.business_groups[g].middlewares[m].backend_containers,
                                   backend_id)
                           IN  IF b # 0
                               THEN LET starting == [config EXCEPT
                                            !.business_groups[g].middlewares[m]
                                                .backend_containers[b].status = "Starting"]
                                        running  == [starting EXCEPT
                                            !.business_groups[g].middlewares[m]
                                                .backend_containers[b].status = "Running"]
                                    IN  ThenSave(running)
                               ELSE Bail(NotFound("backend", backend_id), config)
                      ELSE Bail(NotFound("middleware", middleware_id), config)
             ELSE LET b == Position(config.business_groups[g].backend_containers, backend_id)
                  IN  IF b # 0
                      THEN LET starting == [config EXCEPT
                                   !.business_groups[g].backend_containers[b].status =
                                       "Starting"]
                               running  == [starting EXCEPT
                                   !.business_groups[g].backend_containers[b].status =
                                       "Running"]
                           IN  ThenSave(running)
                      ELSE Bail(NotFound("backend", backend_id), config)
        ELSE Bail(NotFound("group", group_id), config)

stop_backend(config, group_id, middleware_id, backend_id) ==
    LET g == Position(config.business_groups, group_id)
    IN  IF g # 0
        THEN IF middleware_id # "None"
             THEN LET m == Position(config.business_groups[g].middlewares, middleware_id)
                  IN  IF m # 0
                      THEN LET b == Position(
                                   config.business_groups[g].middlewares[m].backend_containers,
                                   backend_id)
                           IN  IF b # 0
                               THEN LET stopping == [config EXCEPT
                                            !.business_groups[g].middlewares[m]
                                                .backend_containers[b].status = "Stopping"]
                                        stopped  == [stopping EXCEPT
                                            !.business_groups[g].middlewares[m]
                                                .backend_containers[b].status = "Stopped"]
                                    IN  ThenSave(stopped)
                               ELSE Bail(NotFound("backend", backend_id), config)
                      ELSE Bail(NotFound("middleware", middleware_id), config)
             ELSE LET b == Position(config.business_groups[g].backend_containers, backend_id)
                  IN  IF b # 0
                      THEN LET stopping == [config EXCEPT
                                   !.business_groups[g].backend_containers[b].status =
                                       "Stopping"]
                               stopped  == [stopping EXCEPT
                                   !.business_groups[g].backend_containers[b].status =
                                       "Stopped"]
                           IN  ThenSave(stopped)
                      ELSE Bail(NotFound("backend", backend_id), config)
        ELSE Bail(NotFound("group", group_id), config)

\* ------------------------------------------------------------ operations

NoEntity == [id |-> "-"]

\* One call of a service function with its arguments ("-" where the function
\* has no such parameter).
Op(name, group_id, middleware_id, backend_id, entity) ==
    [name |-> name, group_id |-> group_id, middleware_id |-> middleware_id,
     backend_id |-> backend_id, entity |-> entity]

RestartNames == {"restart_business_group", "restart_middleware", "restart_backend"}

\* restart_x is stop_x(..)?; start_x(..): two calls, each with its own
\* load_config and save_config.
Halves(name) == IF name \in RestartNames THEN 2 ELSE 1

restart_business_group(config, group_id, half) ==
    IF half = 1 THEN stop_business_group(config, group_id)
                ELSE start_business_group(config, group_id)

\* restart_middleware with its two calls in the other order.
restart_middleware_swapped(config, group_id, middleware_id, half) ==
    IF half = 1 THEN start_middleware(config, group_id, middleware_id)
                ELSE stop_middleware(config, group_id, middleware_id)

restart_middleware(config, group_id, middleware_id, half) ==
    IF half = 1 THEN stop_middleware(config, group_id, middleware_id)
                ELSE start_middleware(config, group_id, middleware_id)

restart_backend(config, group_id, middleware_id, backend_id, half) ==
    IF half = 1 THEN stop_backend(config, group_id, middleware_id, backend_id)
                ELSE start_backend(config, group_id, middleware_id, backend_id)

\* ------------------------------------------------------------ ConfigManager calls

\* The paths a caller names: the config_path of the ConfigManager, and the
\* path of another file.
Paths == {"config", "backup"}

\* A call of load_config(), import_config(path), export_config(&config, path),
\* backup_config(&config) or restore_config(path) made by a caller itself.
ManagerOp(name, path, config) ==
    [name |-> name, group_id |-> "-", middleware_id |-> "-", backend_id |-> "-",
     entity |-> config, path |-> path]

\* A call of health_check() on an ApiClient whose request comes to response.
HealthOp(response) ==
    [name |-> "health_check", group_id |-> "-", middleware_id |-> "-",
     backend_id |-> "-", entity |-> NoEntity, response |-> response]

\* export_config and backup_config have no read: they serialize their
\* argument and write it.
ExportNames == {"export_config", "backup_config"}

ImportNames == {"import_config", "restore_config"}

\* The path whose file the call o reads, and the one whose file it writes.
ReadPath(o) == IF o.name \in ImportNames THEN o.path ELSE "config"

WritePath(o) == IF o.name \in ExportNames THEN o.path ELSE "config"

\* restore_config returning the imported config without making it the store.
restore_config_not_saved(config) ==
    [next |-> "return", res |-> Ok, config |-> config, ret |-> <<config>>]

\* restore_config after its import_config(backup_path)?: save_config(&config)?
\* and Ok(config).
restore_config(config) ==
    [next |-> "save", res |-> NoResult, config |-> config, ret |-> <<config>>]

\* The body of the function o.name between its load_config (its
\* import_config) and its save_config, on the loaded config.
Body(o, half, config) ==
    CASE o.name = "get_all_business_groups" -> get_all_business_groups(config)
      [] o.name = "add_business_group" -> add_business_group(config, o.entity)
      [] o.name = "update_business_group" -> update_business_group(config, o.entity)
      [] o.name = "delete_business_group" -> delete_business_group(config, o.group_id)
      [] o.name = "get_business_group" -> get_business_group(config, o.group_id)
      [] o.name = "start_business_group" -> start_business_group(config, o.group_id)
      [] o.name = "stop_business_group" -> stop_business_group(config, o.group_id)
      [] o.name = "restart_business_group" ->
            restart_business_group(config, o.group_id, half)
      [] o.name = "add_middleware_to_group" ->
            add_middleware_to_group(config, o.group_id, o.entity)
      [] o.name = "update_middleware" -> update_middleware(config, o.group_id, o.entity)
      [] o.name = "delete_middleware" ->
            delete_middleware(config, o.group_id, o.middleware_id)
      [] o.name = "start_middleware" ->
            start_middleware(config, o.group_id, o.middleware_id)
      [] o.name = "stop_middleware" ->
            stop_middleware(config, o.group_id, o.middleware_id)
      [] o.name = "restart_middleware" ->
            restart_middleware(config, o.group_id, o.middleware_id, half)
      [] o.name = "add_backend_to_middleware" ->
            add_backend_to_middleware(config, o.group_id, o.middleware_id, o.entity)
      [] o.name = "add_backend_to_group" ->
            add_backend_to_group(config, o.group_id, o.entity)
      [] o.name = "update_backend" ->
            update_backend(config, o.group_id, o.middleware_id, o.entity)
      [] o.name = "delete_backend" ->
            delete_backend(config, o.group_id, o.middleware_id, o.backend_id)
      [] o.name = "start_backend" ->
            start_backend(config, o.group_id, o.middleware_id, o.backend_id)
      [] o.name = "stop_backend" ->
            stop_backend(config, o.group_id, o.middleware_id, o.backend_id)
      [] o.name = "restart_backend" ->
            restart_backend(config, o.group_id, o.middleware_id, o.backend_id, half)
      [] o.name = "load_config" -> Return(<<config>>, config)
      [] o.name = "import_config" -> Return(<<config>>, config)
      [] o.name = "restore_config" -> restore_config(config)

\* ------------------------------------------------------------ the store file

NoFile == [exists |-> FALSE, content |-> << >>]

FileOf(content) == [exists |-> TRUE, content |-> content]

\* Config::default() stamps last_opened with the time of the call.
Timestamps == {"t0", "t1"}

\* load_config without its path.exists() test: opening a file that is not
\* there fails.
load_config_strict(f, now) ==
    IF ~f.exists
    THEN [ok |-> FALSE, err |-> IoFailure("read"), config |-> ConfigDefault("-")]
    ELSE With(Deserialize(f.content), LAMBDA p :
            IF p.ok
            THEN [ok |-> TRUE, err |-> NoResult, config |-> p.val]
            ELSE [ok |-> FALSE, err |-> SerializationError,
                  config |-> ConfigDefault("-")])

\* load_config that takes the default config for a file it cannot parse.
load_config_lenient(f, now) ==
    IF ~f.exists
    THEN [ok |-> TRUE, err |-> NoResult, config |-> ConfigDefault(now)]
    ELSE With(Deserialize(f.content), LAMBDA p :
            [ok |-> TRUE, err |-> NoResult,
             config |-> IF p.ok THEN p.val ELSE ConfigDefault(now)])

\* ConfigManager::load_config with no I/O failure: the default config when the
\* path does not exist, else the parsed content of the file.
load_config(f, now) ==
    IF ~f.exists
    THEN [ok |-> TRUE, err |-> NoResult, config |-> ConfigDefault(now)]
    ELSE With(Deserialize(f.content), LAMBDA p :
            IF p.ok
            THEN [ok |-> TRUE, err |-> NoResult, config |-> p.val]
            ELSE [ok |-> FALSE, err |-> SerializationError,
                  config |-> ConfigDefault("-")])

\* ConfigManager::import_config with no I/O failure injected: File::open
\* fails when the path does not exist, else the parsed content of the file.
import_config(f) ==
    IF ~f.exists
    THEN [ok |-> FALSE, err |-> IoFailure("open"), config |-> ConfigDefault("-")]
    ELSE With(Deserialize(f.content), LAMBDA p :
            IF p.ok
            THEN [ok |-> TRUE, err |-> NoResult, config |-> p.val]
            ELSE [ok |-> FALSE, err |-> SerializationError,
                  config |-> ConfigDefault("-")])

\* An open for writing that creates the file and does not truncate it.
FileCreate_keeps_content(f) == FileOf(f.content)

\* File::create(path): creates the file, or truncates it when it exists.
FileCreate(f) == FileOf(<< >>)

\* file.write_all(bytes) on the handle File::create returned: the bytes go to
\* offset 0 of the file as it is now; what the file holds beyond them stays.
WriteAll(f, bytes) ==
    FileOf(bytes \o SubSeq(f.content, Len(bytes) + 1, Len(f.content)))

\* Lengths at which a failing write_all may stop: nothing written, half
\* written, all but the last token written.
Cuts(n) == {0, n \div 2, n - 1}

\* ------------------------------------------------------------ inputs

GroupIds == {"g1", "g2"}

MiddlewareIds == {"m1", "m2"}

BackendIds == {"b1", "b2"}

\* A stored tree: group g1 with middleware m1 (owning backend b1) and the
\* direct backend b2, every entity with status s and every container with
\* health h; the non-tree fields differ from Config::default().
Tree(s, h) ==
    Config(<<BusinessGroup("g1", "n",
                 <<MiddlewareContainer("m1", "n",
                       <<BackendContainer("b1", "n", s, h)>>, s, h)>>,
                 <<BackendContainer("b2", "n", s, h)>>, s)>>,
           "g1", "m1", "null", "t0", "light", "false", "60")

\* Two groups; the second has no children.
TwoGroups ==
    [Tree("Running", "Healthy") EXCEPT
        !.business_groups = Append(@, BusinessGroup("g2", "n", << >>, << >>, "Error"))]

\* Lists whose entities share an identifier (no add checks for it).
Duplicates ==
    Config(<<BusinessGroup("g1", "n",
                 <<MiddlewareContainer("m1", "n", << >>, "Stopped", "Healthy"),
                   MiddlewareContainer("m1", "n2",
                       <<BackendContainer("b1", "n", "Running", "Unknown"),
                         BackendContainer("b1", "n2", "Error", "Checking")>>,
                       "Running", "Unhealthy")>>,
                 <<BackendContainer("b1", "n", "Stopped", "Healthy")>>, "Stopped"),
             BusinessGroup("g1", "n2", << >>, << >>, "Running")>>,
           "null", "null", "null", "t0", "dark", "true", "30")

\* A middleware's list and a direct list in which two backends share an
\* identifier.
DuplicateBackends ==
    Config(<<BusinessGroup("g1", "n",
                 <<MiddlewareContainer("m1", "n",
                       <<BackendContainer("b1", "n", "Stopped", "Healthy"),
                         BackendContainer("b2", "n", "Running", "Unknown"),
                         BackendContainer("b1", "n2", "Running", "Unhealthy")>>,
                       "Running", "Healthy")>>,
                 <<BackendContainer("b1", "n", "Stopped", "Checking"),
                   BackendContainer("b1", "n2", "Error", "Unknown")>>, "Running")>>,
           "null", "null", "null", "t0", "dark", "true", "30")

\* What a write_all that failed half way left of a store.
Truncated(f) == FileOf(SubSeq(f.content, 1, Len(f.content) \div 2))

\* The stores a single caller starts on: none, an empty tree, a tree in each
\* status, a tree in each health, two groups, duplicate identifiers, and the
\* empty and the half-written file a failed save leaves.
SeqFiles ==
    {NoFile, FileOf(Serialize(ConfigDefault("t0"))), FileOf(<< >>),
     Truncated(FileOf(Serialize(TwoGroups)))}
        \cup {FileOf(Serialize(Tree(s, "Unknown"))) : s \in GroupStatus}
        \cup {FileOf(Serialize(Tree("Stopped", h))) : h \in HealthStatus}
        \cup {FileOf(Serialize(TwoGroups)), FileOf(Serialize(Duplicates)),
              FileOf(Serialize(DuplicateBackends))}

\* The stores two callers start on.
ConcFiles == {NoFile, FileOf(Serialize(Tree("Running", "Healthy")))}

\* Entities a caller passes to add_* and update_*.
GroupInputs ==
    {BusinessGroup(g, "n2", << >>, << >>, "Stopped") : g \in GroupIds}
        \cup {BusinessGroup("g1", "n2",
                  <<MiddlewareContainer("m2", "n2", << >>, "Stopped", "Unknown")>>,
                  << >>, "Starting"),
              BusinessGroup("g2", "n2", << >>,
                  <<BackendContainer("b1", "n2", "Stopped", "Unknown")>>, "Error")}

MiddlewareInputs ==
    {MiddlewareContainer(m, "n2", << >>, "Stopped", "Unknown") : m \in MiddlewareIds}
        \cup {MiddlewareContainer("m1", "n2",
                  <<BackendContainer("b2", "n2", "Stopping", "Healthy")>>,
                  "Running", "Healthy")}

BackendInputs ==
    {BackendContainer(b, "n2", "Stopped", "Unknown") : b \in BackendIds}
        \cup {BackendContainer("b1", "n2", "Starting", "Healthy")}

OptMiddlewareIds == {"None"} \cup MiddlewareIds

\* Every call of every service function on these arguments.
SeqOps ==
    {Op("get_all_business_groups", "-", "-", "-", NoEntity)}
        \cup {Op(n, "-", "-", "-", e) :
                n \in {"add_business_group", "update_business_group"},
                e \in GroupInputs}
        \cup {Op(n, g, "-", "-", NoEntity) :
                n \in {"delete_business_group", "get_business_group",
                       "start_business_group", "stop_business_group",
                       "restart_business_group"},
                g \in GroupIds}
        \cup {Op(n, g, "-", "-", e) :
                n \in {"add_middleware_to_group", "update_middleware"},
                g \in GroupIds, e \in MiddlewareInputs}
        \cup {Op(n, g, m, "-", NoEntity) :
                n \in {"delete_middleware", "start_middleware", "stop_middleware",
                       "restart_middleware"},
                g \in GroupIds, m \in MiddlewareIds}
        \cup {Op("add_backend_to_middleware", g, m, "-", e) :
                g \in GroupIds, m \in MiddlewareIds, e \in BackendInputs}
        \cup {Op("add_backend_to_group", g, "-", "-", e) :
                g \in GroupIds, e \in BackendInputs}
        \cup {Op("update_backend", g, m, "-", e) :
                g \in GroupIds, m \in OptMiddlewareIds, e \in BackendInputs}
        \cup {Op(n, g, m, b, NoEntity) :
                n \in {"delete_backend", "start_backend", "stop_backend",
                       "restart_backend"},
                g \in GroupIds, m \in OptMiddlewareIds, b \in BackendIds}

\* The stores and the calls of a single caller that issues calls one after
\* the other: start, stop, delete and get of the entities of the stored tree
\* (or of none).
RunFiles ==
    {NoFile, FileOf(Serialize(TwoGroups)), FileOf(Serialize(Duplicates)),
     FileOf(Serialize(DuplicateBackends))}
        \cup {FileOf(Serialize(Tree("Stopped", h))) : h \in HealthStatus}

RunOps ==
    {Op(n, "g1", "-", "-", NoEntity) :
        n \in {"start_business_group", "stop_business_group"}}
        \cup {Op(n, "g1", "m1", "-", NoEntity) :
                n \in {"start_middleware", "stop_middleware", "delete_middleware"}}
        \cup {Op(n, "g1", m, b, NoEntity) :
                n \in {"start_backend", "stop_backend"},
                m \in {"m1", "None"}, b \in {"b1", "b2"}}
        \cup {Op("delete_backend", "g1", m, "b1", NoEntity) : m \in {"m1", "None"}}
        \cup {Op(n, g, "-", "-", NoEntity) :
                n \in {"delete_business_group", "get_business_group"},
                g \in GroupIds}

\* The stores and the calls of a single caller that adds, updates and looks
\* up one after the other: entities whose id the stored tree has and has
\* not, under parents it has and has not.
EditFiles ==
    {NoFile, FileOf(Serialize(Tree("Stopped", "Healthy"))), FileOf(Serialize(TwoGroups)),
     FileOf(Serialize(Duplicates)), FileOf(Serialize(DuplicateBackends))}

EditGroups ==
    {BusinessGroup("g2", "n2", << >>, << >>, "Stopped"),
     BusinessGroup("g1", "n2",
         <<MiddlewareContainer("m2", "n2", << >>, "Stopped", "Unknown")>>,
         << >>, "Starting")}

EditMiddlewares ==
    {MiddlewareContainer("m2", "n2", << >>, "Stopped", "Unknown"),
     MiddlewareContainer("m1", "n2",
         <<BackendContainer("b2", "n2", "Stopping", "Healthy")>>,
         "Running", "Healthy")}

EditBackend == BackendContainer("b1", "n2", "Starting", "Healthy")

EditOps ==
    {Op("get_all_business_groups", "-", "-", "-", NoEntity)}
        \cup {Op("get_business_group", g, "-", "-", NoEntity) : g \in GroupIds}
        \cup {Op(n, "-", "-", "-", e) :
                n \in {"add_business_group", "update_business_group"},
                e \in EditGroups}
        \cup {Op(n, "g1", "-", "-", e) :
                n \in {"add_middleware_to_group", "update_middleware"},
                e \in EditMiddlewares}
        \cup {Op("add_backend_to_middleware", "g1", m, "-", EditBackend) :
                m \in MiddlewareIds}
        \cup {Op("add_backend_to_group", "g1", "-", "-", EditBackend)}
        \cup {Op("update_backend", "g1", m, "-", EditBackend) : m \in {"m1", "None"}}

\* The scenario on an empty store (no file, or a file with no group): create
\* a group, add a middleware to it, add a backend to the middleware, list,
\* delete the group, list.
ScenarioFiles == {NoFile, FileOf(Serialize(ConfigDefault("t0")))}

ScenarioGroups ==
    {BusinessGroup(g, "Prod", << >>, << >>, "Stopped") : g \in GroupIds}

ScenarioMiddlewares ==
    {MiddlewareContainer(m, "n", << >>, "Stopped", "Unknown") : m \in MiddlewareIds}

ScenarioBackends ==
    {BackendContainer(b, "write", "Stopped", "Unknown") : b \in BackendIds}

\* The calls the scenario allows next after the calls h.
Scenario(h) ==
    CASE Len(h) = 0 ->
            {Op("add_business_group", "-", "-", "-", e) : e \in ScenarioGroups}
      [] Len(h) = 1 ->
            {Op("add_middleware_to_group", h[1].op.entity.id, "-", "-", e) :
                e \in ScenarioMiddlewares}
      [] Len(h) = 2 ->
            {Op("add_backend_to_middleware", h[1].op.entity.id, h[2].op.entity.id,
                "-", e) : e \in ScenarioBackends}
      [] Len(h) = 4 ->
            {Op("delete_business_group", h[1].op.entity.id, "-", "-", NoEntity)}
      [] OTHER -> {Op("get_all_business_groups", "-", "-", "-", NoEntity)}

\* The stores, the files at the other path and the calls of a single caller
\* of the ConfigManager: documents longer and shorter than the files they
\* are written over, an absent and a malformed file to import.
ManagerFiles ==
    {NoFile, FileOf(Serialize(Tree("Running", "Healthy"))), FileOf(Serialize(Duplicates))}

BackupFiles ==
    {NoFile, FileOf(Serialize(TwoGroups)), Truncated(FileOf(Serialize(TwoGroups))),
     FileOf(Serialize(ConfigDefault("t1")))}

Documents == {ConfigDefault("t0"), Tree("Stopped", "Unknown"), Duplicates}

ManagerOps ==
    {ManagerOp("load_config", "-", NoEntity)}
        \cup {ManagerOp("import_config", p, NoEntity) : p \in Paths}
        \cup {ManagerOp("restore_config", p, NoEntity) : p \in Paths}
        \cup {ManagerOp("export_config", p, d) : p \in Paths, d \in Documents}
        \cup {ManagerOp("backup_config", "backup", d) : d \in Documents}
        \cup {HealthOp(r) : r \in Responses}

\* The calls two concurrent callers choose from.
ConcOps ==
    {Op("add_business_group", "-", "-", "-",
        BusinessGroup("g2", "n2", << >>, << >>, "Stopped")),
     Op("add_middleware_to_group", "g1", "-", "-",
        MiddlewareContainer("m2", "n2", << >>, "Stopped", "Unknown")),
     Op("delete_business_group", "g1", "-", "-", NoEntity),
     Op("delete_middleware", "g1", "m1", "-", NoEntity),
     Op("start_business_group", "g1", "-", "-", NoEntity),
     Op("stop_middleware", "g1", "m1", "-", NoEntity),
     Op("restart_business_group", "g1", "-", "-", NoEntity),
     Op("restart_middleware", "g1", "m1", "-", NoEntity)}

\* ------------------------------------------------------------ statuses in a tree

BackendStatuses(bs) == {bs[i].status : i \in 1..Len(bs)}

MiddlewareStatuses(ms) ==
    {ms[i].status : i \in 1..Len(ms)}
        \cup UNION {BackendStatuses(ms[i].backend_containers) : i \in 1..Len(ms)}

GroupStatuses(gs) ==
    {gs[i].status : i \in 1..Len(gs)}
        \cup UNION {MiddlewareStatuses(gs[i].middlewares) : i \in 1..Len(gs)}
        \cup UNION {BackendStatuses(gs[i].backend_containers) : i \in 1..Len(gs)}

\* The statuses an entity passed by a caller carries, children included.
EntityStatuses(e) ==
    IF e = NoEntity THEN {}
    ELSE IF "business_groups" \in DOMAIN e THEN GroupStatuses(e.business_groups)
    ELSE {e.status}
        \cup (IF "middlewares" \in DOMAIN e
              THEN MiddlewareStatuses(e.middlewares) ELSE {})
        \cup (IF "backend_containers" \in DOMAIN e
              THEN BackendStatuses(e.backend_containers) ELSE {})

\* The statuses a store file shows to a load (none when it cannot be parsed).
FileStatuses(f) ==
    IF f.exists /\ Deserialize(f.content).ok
    THEN GroupStatuses(Deserialize(f.content).val.business_groups)
    ELSE {}

\* ------------------------------------------------------------ state

Callers == {1, 2}

NoConfig == ConfigDefault("-")

VARIABLES
    file,         \* the store, the file at config_path: [exists, content]
    other,        \* the file at the other path: [exists, content]
    mode,         \* "conc": two callers; "seq", "run", "edit", "scenario", "manager":
                  \* a single caller
    pc,           \* per caller: "idle", "load", "save", "write", "done"
    op,           \* per caller: the call in progress (or the last one)
    half,         \* per caller: 1, or 2 in the start half of a restart
    loaded,       \* per caller: the config its last load_config returned
    mem,          \* per caller: its in-memory config after the mutation
    res,          \* per caller: the Result its call returned
    ret,          \* per caller: the value a query returned
    before,       \* per caller: the store when its call began
    prior,        \* per caller: the store when its last save_config began
    nloads,       \* per caller: load_config calls made by its call
    nsaves,       \* per caller: save_config calls made by its call
    nops,         \* per caller: calls issued
    order,        \* per caller: "began", "first", "second" in two load-load-save-save calls
    faults,       \* I/O failures injected so far
    written,      \* the configs some write_all has written in full
    transientIn,  \* a Starting/Stopping status was in the first store or in an argument
    prev,         \* per caller, in a run of calls: the call before: [op, res, before]
    log,          \* per caller, in the scenario: the calls that returned: [op, res, ret]
    between       \* per caller: the callers whose call in progress (or last call)
                  \* was between the halves of its restart all the time from
                  \* this caller's last load_config to its save

vars == <<file, other, mode, pc, op, half, loaded, mem, res, ret, before, prior,
          nloads, nsaves, nops, order, faults, written, transientIn, prev, log,
          between>>

Active == IF mode = "conc" THEN Callers ELSE {1}

\* The calls a caller may issue: of two concurrent callers the second issues
\* one call.
Budget(c) ==
    CASE mode = "seq" -> MaxOpsSeq
      [] mode = "run" -> MaxOpsRun
      [] mode = "edit" -> MaxOpsEdit
      [] mode = "scenario" -> MaxOpsScenario
      [] mode = "manager" -> MaxOpsManager
      [] mode = "conc" -> IF c = 1 THEN MaxOpsConc ELSE 1

\* The calls of the caller c so far, the one in progress last.
History(c) ==
    IF nops[c] = 0 THEN << >>
    ELSE Append(log[c], [op |-> op[c], res |-> res[c], ret |-> ret[c]])

Menu ==
    CASE mode = "seq" -> SeqOps
      [] mode = "run" -> RunOps
      [] mode = "edit" -> EditOps
      [] mode = "scenario" -> Scenario(History(1))
      [] mode = "manager" -> ManagerOps
      [] mode = "conc" -> ConcOps

NoOp == Op("-", "-", "-", "-", NoEntity)

InitWith(m, files, others) ==
    /\ mode = m
    /\ file \in files
    /\ other \in others
    /\ pc = [c \in Callers |-> "idle"]
    /\ op = [c \in Callers |-> NoOp]
    /\ half = [c \in Callers |-> 1]
    /\ loaded = [c \in Callers |-> NoConfig]
    /\ mem = [c \in Callers |-> NoConfig]
    /\ res = [c \in Callers |-> NoResult]
    /\ ret = [c \in Callers |-> << >>]
    /\ before = [c \in Callers |-> file]
    /\ prior = [c \in Callers |-> file]
    /\ nloads = [c \in Callers |-> 0]
    /\ nsaves = [c \in Callers |-> 0]
    /\ nops = [c \in Callers |-> 0]
    /\ order = [c \in Callers |-> "-"]
    /\ faults = 0
    /\ written = IF file.exists /\ Deserialize(file.content).ok
                 THEN {Deserialize(file.content).val} ELSE {}
    /\ transientIn = ((FileStatuses(file) \cup FileStatuses(other)) \cap Transient # {})
    /\ prev = [c \in Callers |-> [op |-> NoOp, res |-> NoResult, before |-> file]]
    /\ log = [c \in Callers |-> << >>]
    /\ between = [c \in Callers |-> {}]

Init == InitWith("conc", ConcFiles, {NoFile})

InitSeq == InitWith("seq", SeqFiles, {NoFile})

InitRun == InitWith("run", RunFiles, {NoFile})

InitEdit == InitWith("edit", EditFiles, {NoFile})

InitScenario == InitWith("scenario", ScenarioFiles, {NoFile})

InitManager == InitWith("manager", ManagerFiles, BackupFiles)

\* ------------------------------------------------------------ steps

\* The file at a path.
At(path) == IF path = "config" THEN file ELSE other

\* A caller calls a service function (or a ConfigManager function, or
\* health_check of the ApiClient, which returns without a step on the store).
Call(c, o) ==
    /\ c \in Active
    /\ pc[c] \in {"idle", "done"}
    /\ nops[c] < Budget(c)
    /\ op' = [op EXCEPT ![c] = o]
    /\ half' = [half EXCEPT ![c] = 1]
    /\ pc' = [pc EXCEPT ![c] = CASE o.name \in ExportNames -> "save"
                                  [] o.name = "health_check" -> "done"
                                  [] OTHER -> "load"]
    /\ res' = [res EXCEPT ![c] = IF o.name = "health_check"
                                 THEN health_check(o.response).res ELSE NoResult]
    /\ ret' = [ret EXCEPT ![c] = CASE o.name = "backup_config" -> <<o.path>>
                                   [] o.name = "health_check" -> health_check(o.response).ret
                                   [] OTHER -> << >>]
    /\ loaded' = [loaded EXCEPT ![c] = NoConfig]
    /\ mem' = [mem EXCEPT ![c] = IF o.name \in ExportNames THEN o.entity ELSE NoConfig]
    /\ before' = [before EXCEPT ![c] = file]
    /\ prior' = [prior EXCEPT ![c] = file]
    /\ nloads' = [nloads EXCEPT ![c] = 0]
    /\ nsaves' = [nsaves EXCEPT ![c] = 0]
    /\ nops' = [nops EXCEPT ![c] = @ + 1]
    /\ order' = [d \in Callers |-> "-"]
    /\ transientIn' = (transientIn \/ EntityStatuses(o.entity) \cap Transient # {})
    /\ prev' = IF mode \in {"run", "edit", "manager"}
                THEN [prev EXCEPT ![c] =
                        [op |-> op[c], res |-> res[c], before |-> before[c]]]
                ELSE prev
    /\ log' = IF mode = "scenario" /\ nops[c] > 0
               THEN [log EXCEPT ![c] = History(c)]
               ELSE log
    /\ between' = [d \in Callers |-> IF d = c THEN {} ELSE between[d] \ {c}]
    /\ UNCHANGED <<file, other, mode, faults, written>>

\* The callers other than c whose restart has returned from its stop half
\* and has not called load_config in its start half.
Window(c) == {d \in Callers \ {c} : pc[d] = "load" /\ half[d] = 2}

\* A Load in which the start half of a restart goes on with the config its
\* stop half saved, without a load_config of its own.
Load_keeps_config(c) ==
    /\ pc[c] = "load"
    /\ \E now \in Timestamps :
       \E ld \in {IF op[c].name \in ImportNames
                   THEN import_config(At(op[c].path))
                   ELSE IF half[c] = 2
                   THEN [ok |-> TRUE, config |-> mem[c], err |-> NoResult]
                   ELSE load_config(file, now)} :
       \E b \in {Body(op[c], half[c], ld.config)} :
            /\ nloads' = [nloads EXCEPT ![c] = @ + 1]
            /\ IF ~ld.ok
               THEN /\ pc' = [pc EXCEPT ![c] = "done"]
                    /\ res' = [res EXCEPT ![c] = ld.err]
                    /\ UNCHANGED <<loaded, mem, ret>>
               ELSE /\ loaded' = [loaded EXCEPT ![c] = ld.config]
                    /\ mem' = [mem EXCEPT ![c] = b.config]
                    /\ ret' = [ret EXCEPT ![c] = b.ret]
                    /\ IF b.next = "save"
                       THEN /\ pc' = [pc EXCEPT ![c] = "save"]
                            /\ UNCHANGED res
                       ELSE /\ pc' = [pc EXCEPT ![c] = "done"]
                            /\ res' = [res EXCEPT ![c] = b.res]
    /\ between' = [between EXCEPT ![c] = Window(c)]
    /\ UNCHANGED <<file, other, mode, op, half, before, prior, nsaves, nops, order,
                   faults, written, transientIn, prev, log>>

\* let mut config = self.config_manager.load_config()?; then the body of the
\* function up to its save_config or its return.
Load(c) ==
    /\ pc[c] = "load"
    /\ \E now \in Timestamps :
       \E ld \in {IF op[c].name \in ImportNames
                   THEN import_config(At(op[c].path))
                   ELSE load_config(file, now)} :
       \E b \in {Body(op[c], half[c], ld.config)} :
            /\ nloads' = [nloads EXCEPT ![c] = @ + 1]
            /\ IF ~ld.ok
               THEN /\ pc' = [pc EXCEPT ![c] = "done"]
                    /\ res' = [res EXCEPT ![c] = ld.err]
                    /\ UNCHANGED <<loaded, mem, ret>>
               ELSE /\ loaded' = [loaded EXCEPT ![c] = ld.config]
                    /\ mem' = [mem EXCEPT ![c] = b.config]
                    /\ ret' = [ret EXCEPT ![c] = b.ret]
                    /\ IF b.next = "save"
                       THEN /\ pc' = [pc EXCEPT ![c] = "save"]
                            /\ UNCHANGED res
                       ELSE /\ pc' = [pc EXCEPT ![c] = "done"]
                            /\ res' = [res EXCEPT ![c] = b.res]
    /\ between' = [between EXCEPT ![c] = Window(c)]
    /\ UNCHANGED <<file, other, mode, op, half, before, prior, nsaves, nops, order,
                   faults, written, transientIn, prev, log>>

\* A load_config that is called again when File::open or read_to_string
\* fails.
LoadFail_retried(c) ==
    /\ pc[c] = "load"
    /\ At(ReadPath(op[c])).exists
    /\ faults < MaxFaults
    /\ faults' = faults + 1
    /\ nloads' = [nloads EXCEPT ![c] = @ + 1]
    /\ UNCHANGED <<file, other, mode, pc, op, half, loaded, mem, res, ret, before, prior,
                   nsaves, nops, order, written, transientIn, prev, log,
                   between>>

\* File::open or read_to_string fails in load_config.
LoadFail(c) ==
    /\ pc[c] = "load"
    /\ At(ReadPath(op[c])).exists
    /\ faults < MaxFaults
    /\ faults' = faults + 1
    /\ nloads' = [nloads EXCEPT ![c] = @ + 1]
    /\ pc' = [pc EXCEPT ![c] = "done"]
    /\ res' = [res EXCEPT ![c] = IoFailure("read")]
    /\ UNCHANGED <<file, other, mode, op, half, loaded, mem, ret, before, prior, nsaves,
                   nops, order, written, transientIn, prev, log,
                   between>>

\* A caller begins to save in a load-load-save-save race when its peer has
\* loaded and not begun to save, or began to save in such a race itself.
OrderAtSave(c) ==
    IF \E d \in Callers \ {c} :
            /\ Halves(op[d].name) = 1
            /\ pc[d] = "save" \/ order[d] \in {"began", "first"}
    THEN "began"
    ELSE "-"

\* Of the two savers of such a race the first is the one whose save_config
\* returns Ok first, the second the one whose save_config returns Ok after it.
OrderAtReturn(c) ==
    IF order[c] # "began" THEN order[c]
    ELSE IF \E d \in Callers \ {c} : order[d] = "first" THEN "second"
    ELSE "first"

\* save_config up to File::create(path), which succeeds.
Create(c) ==
    /\ pc[c] = "save"
    /\ prior' = [prior EXCEPT ![c] = file]
    /\ nsaves' = [nsaves EXCEPT ![c] = @ + 1]
    /\ IF WritePath(op[c]) = "config"
       THEN file' = FileCreate(file) /\ UNCHANGED other
       ELSE other' = FileCreate(other) /\ UNCHANGED file
    /\ pc' = [pc EXCEPT ![c] = "write"]
    /\ order' = [order EXCEPT ![c] =
                    IF Halves(op[c].name) = 1 THEN OrderAtSave(c) ELSE "-"]
    /\ between' = [between EXCEPT ![c] = @ \cap Window(c)]
    /\ UNCHANGED <<mode, op, half, loaded, mem, res, ret, before, nloads, nops,
                   faults, written, transientIn, prev, log>>

\* save_config fails before it has touched the file: create_dir_all or
\* File::create(path) fails.  (to_string_pretty cannot fail on a Config.)
CreateFail(c) ==
    /\ pc[c] = "save"
    /\ faults < MaxFaults
    /\ faults' = faults + 1
    /\ prior' = [prior EXCEPT ![c] = file]
    /\ nsaves' = [nsaves EXCEPT ![c] = @ + 1]
    /\ pc' = [pc EXCEPT ![c] = "done"]
    /\ res' = [res EXCEPT ![c] = IoFailure("create")]
    /\ UNCHANGED <<file, other, mode, op, half, loaded, mem, ret, before, nloads, nops,
                   order, written, transientIn, prev, log,
                   between>>

\* file.write_all(content.as_bytes()) succeeds and save_config returns Ok(());
\* the stop half of a restart goes on to the start half.
Write(c) ==
    /\ pc[c] = "write"
    /\ IF WritePath(op[c]) = "config"
       THEN /\ file' = WriteAll(file, Serialize(mem[c]))
            /\ written' = written \cup {mem[c]}
            /\ UNCHANGED other
       ELSE /\ other' = WriteAll(other, Serialize(mem[c]))
            /\ UNCHANGED <<file, written>>
    /\ IF half[c] < Halves(op[c].name)
       THEN /\ half' = [half EXCEPT ![c] = 2]
            /\ pc' = [pc EXCEPT ![c] = "load"]
            /\ order' = [d \in Callers |-> "-"]
            /\ UNCHANGED res
       ELSE /\ pc' = [pc EXCEPT ![c] = "done"]
            /\ res' = [res EXCEPT ![c] = Ok]
            /\ order' = [order EXCEPT ![c] = OrderAtReturn(c)]
            /\ UNCHANGED half
    /\ between' = [between EXCEPT ![c] = @ \cap Window(c)]
    /\ UNCHANGED <<mode, op, loaded, mem, ret, before, prior, nloads, nsaves, nops,
                   faults, transientIn, prev, log>>

\* write_all fails after k tokens of the content reached the file.
WriteFail(c) ==
    /\ pc[c] = "write"
    /\ faults < MaxFaults
    /\ faults' = faults + 1
    /\ \E k \in Cuts(Len(Serialize(mem[c]))) :
            IF WritePath(op[c]) = "config"
            THEN file' = WriteAll(file, SubSeq(Serialize(mem[c]), 1, k)) /\ UNCHANGED other
            ELSE other' = WriteAll(other, SubSeq(Serialize(mem[c]), 1, k)) /\ UNCHANGED file
    /\ pc' = [pc EXCEPT ![c] = "done"]
    /\ res' = [res EXCEPT ![c] = IoFailure("write")]
    /\ UNCHANGED <<mode, op, half, loaded, mem, ret, before, prior, nloads, nsaves,
                   nops, order, written, transientIn, prev, log,
                   between>>

Next ==
    \E c \in Callers :
        \/ \E o \in Menu : Call(c, o)
        \/ Load(c)
        \/ LoadFail(c)
        \/ Create(c)
        \/ CreateFail(c)
        \/ Write(c)
        \/ WriteFail(c)

\* Two callers, their steps interleaved.
Spec == Init /\ [][Next]_vars

\* A single caller.
SpecSeq == InitSeq /\ [][Next]_vars

\* A single caller issuing calls one after the other.
SpecRun == InitRun /\ [][Next]_vars

\* A single caller adding, updating and looking up one after the other.
SpecEdit == InitEdit /\ [][Next]_vars

\* A single caller going through the scenario on an empty store.
SpecScenario == InitScenario /\ [][Next]_vars

\* A single caller of the ConfigManager functions and of health_check.
SpecManager == InitManager /\ [][Next]_vars

\* ------------------------------------------------------------ reading a state

Done(c) == pc[c] = "done"

\* The config a load of the store f returns when f can be read and parsed.
Parsed(f) == Deserialize(f.content).val

Readable(f) == f.exists /\ Deserialize(f.content).ok

GroupNames ==
    {"update_business_group", "start_business_group", "stop_business_group",
     "restart_business_group"}

MiddlewareNames ==
    {"update_middleware", "start_middleware", "stop_middleware", "restart_middleware"}

BackendNames == {"update_backend", "start_backend", "stop_backend", "restart_backend"}

StartNames == {"start_business_group", "start_middleware", "start_backend"}

StopNames == {"stop_business_group", "stop_middleware", "stop_backend"}

UpdateNames == {"update_business_group", "update_middleware", "update_backend"}

\* The identifiers a call addresses its entity by (an update carries the
\* identifier of its level in the entity).
TargetGroup(o) == IF o.name = "update_business_group" THEN o.entity.id ELSE o.group_id

TargetMiddleware(o) == IF o.name = "update_middleware" THEN o.entity.id ELSE o.middleware_id

TargetBackend(o) == IF o.name = "update_backend" THEN o.entity.id ELSE o.backend_id

\* The entities of a list with the given id, in list order.
WithId(list, id) == SelectSeq(list, LAMBDA e : e.id = id)

\* The list in which the call o looks its entity up, << >> when a level above
\* it does not resolve; and the identifier it looks up there.
TargetList(o, config) ==
    LET gs == WithId(config.business_groups, TargetGroup(o))
    IN  IF o.name \in GroupNames THEN config.business_groups
        ELSE IF gs = << >> THEN << >>
        ELSE IF o.name \in MiddlewareNames THEN gs[1].middlewares
        ELSE IF o.middleware_id = "None" THEN gs[1].backend_containers
        ELSE LET ms == WithId(gs[1].middlewares, o.middleware_id)
             IN  IF ms = << >> THEN << >> ELSE ms[1].backend_containers

TargetId(o) ==
    IF o.name \in GroupNames THEN TargetGroup(o)
    ELSE IF o.name \in MiddlewareNames THEN TargetMiddleware(o)
    ELSE TargetBackend(o)

\* The status of the entity the call o addresses in config, "-" when there
\* is no such entity.
TargetStatus(o, config) ==
    LET es == WithId(TargetList(o, config), TargetId(o))
    IN  IF es = << >> THEN "-" ELSE es[1].status

\* ------------------------------------------------------------ claims

\* C1: save is all-or-nothing.  When a call that reached save_config has
\* returned, either it returned Ok and the store holds exactly the document
\* it saved, or it returned an error and the store holds exactly what it
\* held when save_config began; and a call that began on a whole document
\* (or on no store) does not leave an empty, truncated or partially written
\* one.
C1_SaveAllOrNothing ==
    \A c \in Callers :
        Done(c) =>
            /\ nsaves[c] > 0 =>
                  IF res[c] = Ok
                  THEN file = FileOf(Serialize(mem[c]))
                  ELSE file = prior[c]
            /\ (Readable(before[c]) \/ ~before[c].exists) =>
                  (Readable(file) \/ ~file.exists)

\* C2: a successful start changes the persisted status of its entity only
\* from Stopped or Error to Running, a successful stop only from Running to
\* Stopped; no other pair with a changed status.
C2_StateMachine ==
    \A c \in Callers :
        (Done(c) /\ res[c] = Ok /\ op[c].name \in StartNames \cup StopNames
                 /\ Readable(file)) =>
            LET was == TargetStatus(op[c], loaded[c])
                now == TargetStatus(op[c], Parsed(file))
            IN  \/ now = was
                \/ op[c].name \in StartNames
                    /\ was \in {"Stopped", "Error"} /\ now = "Running"
                \/ op[c].name \in StopNames
                    /\ was = "Running" /\ now = "Stopped"

\* The identifiers an entity passed by a caller carries, children included.
EntityIds(e) ==
    {e.id}
        \cup (IF "middlewares" \in DOMAIN e
              THEN {e.middlewares[i].id : i \in 1..Len(e.middlewares)}
                  \cup UNION {{e.middlewares[i].backend_containers[j].id :
                                  j \in 1..Len(e.middlewares[i].backend_containers)} :
                              i \in 1..Len(e.middlewares)}
              ELSE {})
        \cup (IF "backend_containers" \in DOMAIN e
              THEN {e.backend_containers[i].id : i \in 1..Len(e.backend_containers)}
              ELSE {})

\* The entity the add call o appends is in config: a group with its id, or
\* a middleware with its id in a group with the id o names.
AddedIn(o, config) ==
    IF o.name = "add_business_group"
    THEN WithId(config.business_groups, o.entity.id) # << >>
    ELSE \E i \in 1..Len(config.business_groups) :
            /\ config.business_groups[i].id = o.group_id
            /\ WithId(config.business_groups[i].middlewares, o.entity.id) # << >>

\* Callers a and b each ran load, mutate, save; both loads came before
\* either save began; neither save met an I/O failure; the save of a
\* returned first, the save of b second.
LoadLoadSaveSave(a, b) ==
    /\ a # b
    /\ Done(a) /\ Done(b)
    /\ order[a] = "first" /\ order[b] = "second"

\* C3: lost update.  When two callers each run load, mutate, save, both
\* loads before either save, both calls return Ok and the store then holds
\* exactly the second saver's document, computed from what the second saver
\* loaded; an entity the first saver added, which the second saver neither
\* loaded nor passed, is not in it.
C3_LostUpdate ==
    \A a, b \in Callers :
        LoadLoadSaveSave(a, b) =>
            /\ res[a] = Ok /\ res[b] = Ok
            /\ file = FileOf(Serialize(mem[b]))
            /\ mem[b] = Body(op[b], 1, loaded[b]).config
            /\ (/\ op[a].name \in {"add_business_group", "add_middleware_to_group"}
                /\ ~AddedIn(op[a], loaded[b])
                /\ op[a].entity.id \notin EntityIds(op[b].entity))
                    => ~AddedIn(op[a], Parsed(file))

\* C4: concurrent edits never corrupt the tree.  No load fails to parse, and
\* every document a load returned is one some save wrote in full, the
\* document the store held at first, or the default document of an absent
\* store.
C4_LoadsSeeWholeSaves ==
    \A c \in Callers :
        /\ res[c] # SerializationError
        /\ loaded[c] # NoConfig =>
              loaded[c] \in written \cup {ConfigDefault(t) : t \in Timestamps}

\* C5: restart is two independently persisted steps.  When the stop half of
\* a restart succeeded and its start half failed, restart has returned the
\* error and the persisted status of the entity is Stopped.
C5_FailedStartLeavesStopped ==
    \A c \in Callers :
        (Done(c) /\ op[c].name \in RestartNames /\ half[c] = 2 /\ res[c] # Ok) =>
            /\ Readable(file)
            /\ TargetStatus(op[c], Parsed(file)) = "Stopped"

\* The service call a restart makes in its stop half and in its start half.
StopOf(o) ==
    [o EXCEPT !.name =
        CASE o.name = "restart_business_group" -> "stop_business_group"
          [] o.name = "restart_middleware" -> "stop_middleware"
          [] o.name = "restart_backend" -> "stop_backend"]

StartOf(o) ==
    [o EXCEPT !.name =
        CASE o.name = "restart_business_group" -> "start_business_group"
          [] o.name = "restart_middleware" -> "start_middleware"
          [] o.name = "restart_backend" -> "start_backend"]

\* The outcome of the call o, run alone on the store f with no I/O failure:
\* the Result it returns and the store it leaves.
Run(o, f, now) ==
    With(load_config(f, now), LAMBDA ld :
        IF ~ld.ok
        THEN [res |-> ld.err, file |-> f]
        ELSE With(Body(o, 1, ld.config), LAMBDA b :
                IF b.next = "save"
                THEN [res |-> Ok,
                      file |-> WriteAll(FileCreate(f), Serialize(b.config))]
                ELSE [res |-> b.res, file |-> f]))

\* stop(id) immediately followed by start(id), each a call of its own; the
\* result is the first error, else the result of start.
StopThenStart(o, f, now) ==
    With(Run(StopOf(o), f, now), LAMBDA r :
        IF r.res # Ok THEN r ELSE Run(StartOf(o), r.file, now))

\* C6: with a single caller and no I/O failure, restart(id) returns the same
\* result and leaves the same store as stop(id) immediately followed by
\* start(id), where a stop or a start alone does what the call on its own
\* does; for every store and every identifier, present or absent.
C6_RestartIsStopThenStart ==
    \A c \in Callers :
        (Done(c) /\ res[c].kind # "IoFailure") =>
            /\ op[c].name \in RestartNames =>
                 \E now \in Timestamps :
                    [res |-> res[c], file |-> file] = StopThenStart(op[c], before[c], now)
            /\ op[c].name \in StartNames \cup StopNames =>
                 \E now \in Timestamps :
                    [res |-> res[c], file |-> file] = Run(op[c], before[c], now)

\* C6 witness: a restart of a middleware that was in status Error returned
\* Ok and left it Running.
C6_Witness ==
    \E c \in Callers :
        /\ Done(c) /\ op[c].name = "restart_middleware" /\ res[c] = Ok
        /\ TargetStatus(op[c], Parsed(before[c])) = "Error"
        /\ TargetStatus(op[c], Parsed(file)) = "Running"

\* C7: when no stored entity is Starting or Stopping and no caller passes an
\* entity with such a status, no load ever returns an entity whose status is
\* Starting or Stopping, between the two halves of a restart and under every
\* interleaving of the callers included (nor does the store hold one).
C7_TransientNeverObservable ==
    ~transientIn =>
        /\ FileStatuses(file) \cap Transient = {}
        /\ \A c \in Callers :
              GroupStatuses(loaded[c].business_groups) \cap Transient = {}

\* C7 witness: while a restart is between its two halves, another caller
\* loads the store and finds the restarted entity, Running before, Stopped.
C7_Witness ==
    /\ ~transientIn
    /\ \E c, d \in Callers :
        /\ c # d
        /\ op[c].name \in RestartNames /\ half[c] = 2 /\ pc[c] = "load"
        /\ TargetStatus(op[c], Parsed(before[c])) = "Running"
        /\ pc[d] = "save" /\ op[d].name \notin StopNames \cup RestartNames
        /\ TargetStatus(op[c], loaded[d]) = "Stopped"

\* C8: after an Entity Service operation returned Ok on a store in which no
\* entity was Starting or Stopping, no entity of the persisted tree is
\* Starting or Stopping.
C8_NoTransientAfterSuccess ==
    \A c \in Callers :
        (Done(c) /\ res[c] = Ok /\ FileStatuses(before[c]) \cap Transient = {}) =>
            FileStatuses(file) \cap Transient = {}

\* The call of caller c addresses an entity that the store it began on does
\* not have, at some level of the resolution.
Absent(c) ==
    /\ op[c].name \in GroupNames \cup MiddlewareNames \cup BackendNames
    /\ \/ ~before[c].exists
       \/ Readable(before[c]) /\ TargetStatus(op[c], Parsed(before[c])) = "-"

\* C9: a start, stop, restart or update of an entity whose identifier is
\* absent at some level returns NotFound; and a call that returned NotFound
\* made no save and left the store (or its absence) exactly as it was.
C9_NotFoundHasNoEffect ==
    \A c \in Callers :
        Done(c) =>
            /\ (Absent(c) /\ res[c].kind # "IoFailure") => res[c].kind = "NotFound"
            /\ res[c].kind = "NotFound" => (nsaves[c] = 0 /\ file = before[c])

\* C9 witness: restart_backend under a middleware the group does not have
\* returned the middleware-level NotFound and the store is as before.
C9_Witness ==
    \E c \in Callers :
        /\ Done(c) /\ op[c].name = "restart_backend"
        /\ res[c] = NotFound("middleware", "m2")
        /\ file.exists /\ file = before[c] /\ nsaves[c] = 0

Unique(list) ==
    \A i, j \in 1..Len(list) : i # j => list[i].id # list[j].id

\* No two groups share an id, no two middlewares of a group, no two backends
\* of one owning list.
UniqueIds(config) ==
    /\ Unique(config.business_groups)
    /\ \A g \in 1..Len(config.business_groups) :
        /\ Unique(config.business_groups[g].middlewares)
        /\ Unique(config.business_groups[g].backend_containers)
        /\ \A m \in 1..Len(config.business_groups[g].middlewares) :
              Unique(config.business_groups[g].middlewares[m].backend_containers)

\* C10: identifiers stay unique.  After an Entity Service operation returned
\* Ok on a store whose identifiers were unique (or on no store), the
\* identifiers of the persisted tree are unique.
C10_IdentifiersUnique ==
    \A c \in Callers :
        (/\ Done(c) /\ res[c] = Ok /\ Readable(file)
         /\ Readable(before[c]) => UniqueIds(Parsed(before[c]))) =>
            UniqueIds(Parsed(file))

\* The identifiers of the entities of a list.
Ids(list) == {list[i].id : i \in 1..Len(list)}

\* No backend identifier is both in a group's direct backend list and in the
\* backend list of one of the group's middleware containers.
OneOwner(config) ==
    \A g \in 1..Len(config.business_groups) :
        \A m \in 1..Len(config.business_groups[g].middlewares) :
            Ids(config.business_groups[g].backend_containers)
                \cap Ids(config.business_groups[g].middlewares[m].backend_containers) = {}

\* C11: a backend container has exactly one owner.  After an Entity Service
\* operation returned Ok on a store in which no backend identifier was both
\* in a group's direct list and in a list of one of its middlewares (or on no
\* store), none is in the persisted tree.
C11_OneOwner ==
    \A c \in Callers :
        (/\ Done(c) /\ res[c] = Ok /\ Readable(file)
         /\ Readable(before[c]) => OneOwner(Parsed(before[c]))) =>
            OneOwner(Parsed(file))

\* The calls addressed to a middleware, and to a backend, of a group.
MiddlewareCalls == MiddlewareNames \cup {"delete_middleware"}

BackendCalls == BackendNames \cup {"delete_backend"}

\* The backend list the call o addresses in the group g: the direct list of
\* g, or the list of the first middleware of g with the id o gives (<< >>
\* when g has no such middleware).
ScopedBackends(o, g) ==
    IF o.middleware_id = "None" THEN g.backend_containers
    ELSE LET ms == WithId(g.middlewares, o.middleware_id)
         IN  IF ms = << >> THEN << >> ELSE ms[1].backend_containers

\* The NotFound of the first level at which the identifiers of the call o,
\* addressed to a middleware or to a backend, do not resolve in config; Ok
\* when they all resolve.
Unresolved(o, config) ==
    LET gs == WithId(config.business_groups, TargetGroup(o))
    IN  IF gs = << >> THEN NotFound("group", TargetGroup(o))
        ELSE IF o.name \in MiddlewareCalls
        THEN IF WithId(gs[1].middlewares, TargetMiddleware(o)) = << >>
             THEN NotFound("middleware", TargetMiddleware(o))
             ELSE Ok
        ELSE IF /\ o.middleware_id # "None"
                /\ WithId(gs[1].middlewares, o.middleware_id) = << >>
        THEN NotFound("middleware", o.middleware_id)
        ELSE IF WithId(ScopedBackends(o, gs[1]), TargetBackend(o)) = << >>
        THEN NotFound("backend", TargetBackend(o))
        ELSE Ok

\* The call of caller c loaded a config and met no I/O failure.
Loaded(c) == Done(c) /\ res[c].kind \notin {"IoFailure", "Serialization"}

\* In config the group the call o addresses has the backend o addresses in
\* the list of a middleware (the one o names, when it names one) and not in
\* its direct list.
MiddlewareScoped(o, config) ==
    LET gs == WithId(config.business_groups, TargetGroup(o))
    IN  /\ gs # << >>
        /\ TargetBackend(o) \notin Ids(gs[1].backend_containers)
        /\ IF o.middleware_id = "None"
           THEN \E m \in 1..Len(gs[1].middlewares) :
                    TargetBackend(o) \in Ids(gs[1].middlewares[m].backend_containers)
           ELSE TargetBackend(o) \in Ids(ScopedBackends(o, gs[1]))

\* The direct backend list of the group the call o addresses.
DirectBackends(o, config) ==
    LET gs == WithId(config.business_groups, TargetGroup(o))
    IN  IF gs = << >> THEN << >> ELSE gs[1].backend_containers

\* C12: scope isolation of the backend collections.  For a backend that is in
\* the list of middleware M of group G and not in G's direct list, a backend
\* operation addressed as (G, Some(M), B) returns Ok, and one addressed as
\* (G, None, B) returns NotFound, makes no save and leaves the store as it
\* was; and an operation addressed with a middleware id leaves G's direct
\* backend list as it was.
C12_ScopeIsolation ==
    \A c \in Callers :
        (Loaded(c) /\ op[c].name \in BackendCalls) =>
            /\ MiddlewareScoped(op[c], loaded[c]) =>
                  IF op[c].middleware_id # "None"
                  THEN res[c] = Ok
                  ELSE /\ res[c].kind = "NotFound"
                       /\ nsaves[c] = 0
                       /\ file = before[c]
            /\ (op[c].middleware_id # "None" /\ res[c] = Ok /\ Readable(file)) =>
                  DirectBackends(op[c], Parsed(file)) = DirectBackends(op[c], loaded[c])

\* C13: update_backend and delete_backend report NotFound at the first
\* unresolved level: the group, else the middleware when one is named, else
\* the backend in the resolved list.
C13_BackendFirstUnresolved ==
    \A c \in Callers :
        (/\ Loaded(c) /\ op[c].name \in {"update_backend", "delete_backend"}
         /\ Unresolved(op[c], loaded[c]) # Ok) =>
            res[c] = Unresolved(op[c], loaded[c])

\* C14: update_middleware and delete_middleware return the group-level
\* NotFound when the group is absent and the middleware-level NotFound when
\* the group has no middleware with the id.
C14_MiddlewareMissingLevel ==
    \A c \in Callers :
        (/\ Loaded(c) /\ op[c].name \in {"update_middleware", "delete_middleware"}
         /\ Unresolved(op[c], loaded[c]) # Ok) =>
            res[c] = Unresolved(op[c], loaded[c])

\* The health of every middleware and backend of config, each with the
\* identifiers that lead to it: <<group, middleware, "-", health>>,
\* <<group, middleware, backend, health>>, <<group, "None", backend, health>>.
Healths(config) ==
    UNION {LET g == config.business_groups[i]
           IN  {<<g.id, g.middlewares[j].id, "-", g.middlewares[j].health>> :
                    j \in 1..Len(g.middlewares)}
               \cup UNION {{<<g.id, g.middlewares[j].id,
                               g.middlewares[j].backend_containers[k].id,
                               g.middlewares[j].backend_containers[k].health>> :
                                k \in 1..Len(g.middlewares[j].backend_containers)} :
                           j \in 1..Len(g.middlewares)}
               \cup {<<g.id, "None", g.backend_containers[k].id,
                       g.backend_containers[k].health>> :
                        k \in 1..Len(g.backend_containers)} :
           i \in 1..Len(config.business_groups)}

\* C15: the core preserves health.  After an Entity Service operation
\* returned Ok, every middleware and backend that is in the store both
\* before and after it (identifiers unique, so that they name it) has the
\* health it had before.
C15_HealthPreserved ==
    \A c \in Callers :
        (/\ Done(c) /\ res[c] = Ok /\ Readable(before[c]) /\ Readable(file)
         /\ UniqueIds(Parsed(before[c])) /\ UniqueIds(Parsed(file))) =>
            \A x \in Healths(Parsed(before[c])), y \in Healths(Parsed(file)) :
                (x[1] = y[1] /\ x[2] = y[2] /\ x[3] = y[3]) => x[4] = y[4]

\* The health values of a tree, position by position.
BackendHealths(bs) == [k \in 1..Len(bs) |-> bs[k].health]

MiddlewareHealths(ms) ==
    [j \in 1..Len(ms) |-> <<ms[j].health, BackendHealths(ms[j].backend_containers)>>]

HealthTree(config) ==
    [i \in 1..Len(config.business_groups) |->
        <<MiddlewareHealths(config.business_groups[i].middlewares),
          BackendHealths(config.business_groups[i].backend_containers)>>]

\* The health of the container the call o addresses in config, "-" when
\* there is no such container.
TargetHealth(o, config) ==
    LET es == WithId(TargetList(o, config), TargetId(o))
    IN  IF es = << >> THEN "-" ELSE es[1].health

LifecycleCalls ==
    (MiddlewareNames \cup BackendNames) \ {"update_middleware", "update_backend"}

\* C16: start, stop and restart of a middleware or backend never mutate
\* health.  When such a call has returned, the health of the container it
\* addressed and of every other container in the persisted tree is what it
\* was before the call.
C16_LifecycleKeepsHealth ==
    \A c \in Callers :
        (/\ Done(c) /\ op[c].name \in LifecycleCalls
         /\ Readable(before[c]) /\ Readable(file)) =>
            HealthTree(Parsed(file)) = HealthTree(Parsed(before[c]))

\* C16 witness: start_backend returned Ok on a backend that was Stopped and
\* Unhealthy; it is Running and Unhealthy.
C16_Witness ==
    \E c \in Callers :
        /\ Done(c) /\ op[c].name = "start_backend" /\ res[c] = Ok
        /\ TargetStatus(op[c], Parsed(before[c])) = "Stopped"
        /\ TargetHealth(op[c], Parsed(before[c])) = "Unhealthy"
        /\ TargetStatus(op[c], Parsed(file)) = "Running"
        /\ TargetHealth(op[c], Parsed(file)) = "Unhealthy"

\* The start call on the entity the stop call o addresses.
StartFor(o) ==
    [o EXCEPT !.name =
        CASE o.name = "stop_business_group" -> "start_business_group"
          [] o.name = "stop_middleware" -> "start_middleware"
          [] o.name = "stop_backend" -> "start_backend"]

\* Caller c has run start and then stop, one right after the other and each
\* returning Ok, on an entity that was Stopped before the start.
StartedThenStopped(c) ==
    /\ Done(c) /\ op[c].name \in StopNames /\ res[c] = Ok
    /\ prev[c].op = StartFor(op[c]) /\ prev[c].res = Ok
    /\ Readable(prev[c].before)
    /\ TargetStatus(op[c], Parsed(prev[c].before)) = "Stopped"

\* C17: start followed by stop is a round trip on status.  After a
\* successful start followed by a successful stop of a group, middleware or
\* backend that was Stopped, its status is Stopped and (for a container) its
\* health is what it was, whichever health that was.
C17_StartStopRoundTrip ==
    \A c \in Callers :
        StartedThenStopped(c) =>
            /\ Readable(file)
            /\ TargetStatus(op[c], Parsed(file)) = "Stopped"
            /\ op[c].name # "stop_business_group" =>
                  TargetHealth(op[c], Parsed(file))
                      = TargetHealth(op[c], Parsed(prev[c].before))

\* C17 witness: a middleware that was Stopped with health Checking has been
\* started and then stopped; it is Stopped with health Checking.
C17_Witness ==
    \E c \in Callers :
        /\ StartedThenStopped(c) /\ op[c].name = "stop_middleware"
        /\ TargetHealth(op[c], Parsed(prev[c].before)) = "Checking"
        /\ TargetStatus(op[c], Parsed(before[c])) = "Running"
        /\ TargetStatus(op[c], Parsed(file)) = "Stopped"
        /\ TargetHealth(op[c], Parsed(file)) = "Checking"

\* Caller c has run delete_business_group(g) and then get_business_group(g),
\* one right after the other and each returning Ok.
DeletedThenGot(c) ==
    /\ Done(c) /\ op[c].name = "get_business_group" /\ res[c] = Ok
    /\ prev[c].op = [op[c] EXCEPT !.name = "delete_business_group"]
    /\ prev[c].res = Ok

\* C18: delete followed by lookup finds nothing.  get_business_group(g)
\* after a successful delete_business_group(g) returns None; after a
\* successful delete_middleware(g, m) the group has no middleware with id m;
\* after a successful delete_backend(g, scope, b) the resolved list has no
\* backend with id b; also when several entities carried the id.
C18_DeleteThenLookup ==
    \A c \in Callers :
        /\ DeletedThenGot(c) => ret[c] = << >>
        /\ (Done(c) /\ res[c] = Ok /\ op[c].name = "delete_middleware") =>
              /\ Readable(file)
              /\ Unresolved(op[c], Parsed(file))
                    = NotFound("middleware", op[c].middleware_id)
        /\ (Done(c) /\ res[c] = Ok /\ op[c].name = "delete_backend") =>
              /\ Readable(file)
              /\ Unresolved(op[c], Parsed(file)) = NotFound("backend", op[c].backend_id)

\* C18 witness: two groups had the id g1; delete_business_group(g1) and then
\* get_business_group(g1) returned Ok, the latter with None.
C18_Witness ==
    \E c \in Callers :
        /\ DeletedThenGot(c) /\ op[c].group_id = "g1"
        /\ Readable(prev[c].before)
        /\ Len(WithId(Parsed(prev[c].before).business_groups, "g1")) = 2
        /\ ret[c] = << >>

\* The groups of config after the first group with the id g has lost every
\* middleware with the id m, its backends with it; all else as it was.
WithoutMiddleware(config, g, m) ==
    LET i == Position(config.business_groups, g)
    IN  [k \in 1..Len(config.business_groups) |->
            IF k = i
            THEN [config.business_groups[k] EXCEPT
                     !.middlewares = SelectSeq(@, LAMBDA e : e.id # m)]
            ELSE config.business_groups[k]]

\* The path (group, middleware or "None", backend) of every backend of config.
BackendPaths(config) ==
    LET gs == config.business_groups
    IN  UNION {{<<gs[i].id, "None", b>> : b \in Ids(gs[i].backend_containers)}
                  \cup UNION {{<<gs[i].id, gs[i].middlewares[j].id, b>> :
                                   b \in Ids(gs[i].middlewares[j].backend_containers)} :
                               j \in 1..Len(gs[i].middlewares)} :
               i \in 1..Len(gs)}

\* C19: deletes cascade to children and to nothing else.  After a
\* delete_business_group(g) that returned Ok the persisted groups are the
\* loaded ones without those of id g, in their order and each with all its
\* children, and no middleware or backend is left under g.  After a
\* delete_middleware(g, m) that returned Ok the group g has its loaded
\* middlewares without those of id m, none of its backends is left under
\* (g, m) in that group, its direct backends are the loaded ones, and every
\* other group is as it was loaded.
C19_DeleteCascades ==
    \A c \in Callers :
        (Done(c) /\ res[c] = Ok) =>
            /\ op[c].name = "delete_business_group" =>
                  /\ Readable(file)
                  /\ Parsed(file).business_groups =
                         SelectSeq(loaded[c].business_groups,
                                   LAMBDA e : e.id # op[c].group_id)
                  /\ \A p \in BackendPaths(Parsed(file)) : p[1] # op[c].group_id
            /\ op[c].name = "delete_middleware" =>
                  /\ Readable(file)
                  /\ Parsed(file).business_groups =
                         WithoutMiddleware(loaded[c], op[c].group_id,
                                           op[c].middleware_id)
                  /\ LET gs == WithId(Parsed(file).business_groups, op[c].group_id)
                         was == WithId(loaded[c].business_groups, op[c].group_id)
                     IN  /\ op[c].middleware_id \notin Ids(gs[1].middlewares)
                         /\ gs[1].backend_containers = was[1].backend_containers

\* delete_middleware(g1, m1) returned Ok on a tree in which m1 owned b1 and
\* g1 held b2 directly: m1 and b1 are gone, b2 is still g1's.
C19_Witness ==
    \E c \in Callers :
        /\ Done(c) /\ res[c] = Ok
        /\ op[c].name = "delete_middleware"
        /\ op[c].group_id = "g1" /\ op[c].middleware_id = "m1"
        /\ Len(loaded[c].business_groups) = 2
        /\ BackendPaths(loaded[c]) = {<<"g1", "m1", "b1">>, <<"g1", "None", "b2">>}
        /\ Readable(file)
        /\ BackendPaths(Parsed(file)) = {<<"g1", "None", "b2">>}
        /\ Parsed(file).business_groups[2] = loaded[c].business_groups[2]

\* The caller's last two calls were the same delete_business_group, the
\* first of which returned Ok.
DeletedTwice(c) ==
    /\ Done(c) /\ op[c].name = "delete_business_group"
    /\ prev[c].op = op[c]
    /\ prev[c].res = Ok

\* C20: deleting a group identifier no group has is an idempotent no-op
\* success.  A delete_business_group(id) that loaded a config without a group
\* of that id and got through its save returns Ok and the persisted list of
\* groups is the loaded one; and a second delete_business_group(id) right
\* after one that returned Ok returns Ok as well, when its load and save get
\* through, and leaves the store as the first one left it.
C20_DeleteAbsentGroup ==
    \A c \in Callers :
        /\ (Loaded(c) /\ op[c].name = "delete_business_group"
                      /\ op[c].group_id \notin Ids(loaded[c].business_groups)) =>
               /\ res[c] = Ok
               /\ Readable(file)
               /\ Parsed(file).business_groups = loaded[c].business_groups
        /\ (DeletedTwice(c) /\ Loaded(c)) =>
               /\ res[c] = Ok
               /\ file = before[c]

\* delete_business_group(g1) was called twice on a store that had g1 and
\* another group; both calls returned Ok and the other group is what is left.
C20_Witness ==
    \E c \in Callers :
        /\ DeletedTwice(c) /\ res[c] = Ok
        /\ op[c].group_id = "g1"
        /\ Readable(prev[c].before)
        /\ Ids(Parsed(prev[c].before).business_groups) = {"g1", "g2"}
        /\ Readable(file)
        /\ Ids(Parsed(file).business_groups) = {"g2"}
        /\ file = before[c]

\* C21: update_business_group(g) replaces in place.  When the loaded list has
\* a group with g's id the call returns Ok once its save got through, and the
\* persisted list has the length of the loaded one, g at the first position
\* that held the id and the loaded group at every other position; when no
\* loaded group has g's id the call returns the NotFound of the group level.
C21_UpdateGroupInPlace ==
    \A c \in Callers :
        (Loaded(c) /\ op[c].name = "update_business_group") =>
            LET old == loaded[c].business_groups
                g == op[c].entity
            IN  IF g.id \in Ids(old)
                THEN /\ res[c] = Ok
                     /\ Readable(file)
                     /\ LET new == Parsed(file).business_groups
                        IN  /\ Len(new) = Len(old)
                            /\ \E i \in 1..Len(old) :
                                  /\ old[i].id = g.id
                                  /\ \A j \in 1..(i - 1) : old[j].id # g.id
                                  /\ new[i] = g
                                  /\ \A k \in 1..Len(old) : k # i => new[k] = old[k]
                ELSE res[c] = NotFound("group", g.id)

\* update_business_group returned Ok for the first of two stored groups with
\* a group that has other children: the store holds the new group first and
\* the second group as it was.
C21_Witness ==
    \E c \in Callers :
        /\ Done(c) /\ res[c] = Ok
        /\ op[c].name = "update_business_group"
        /\ Ids(loaded[c].business_groups) = {"g1", "g2"}
        /\ op[c].entity.id = "g1"
        /\ op[c].entity.middlewares # loaded[c].business_groups[1].middlewares
        /\ Readable(file)
        /\ Parsed(file).business_groups =
               <<op[c].entity, loaded[c].business_groups[2]>>

AddNames ==
    {"add_business_group", "add_middleware_to_group", "add_backend_to_middleware",
     "add_backend_to_group"}

\* The list the add call o pushes its entity on in config, in a sequence of
\* one: the groups, the middlewares or the direct backends of the first group
\* with o's group id, the backends of that group's first middleware with o's
\* middleware id; << >> when the group or the middleware is not there.
ParentList(o, config) ==
    LET gs == WithId(config.business_groups, o.group_id)
    IN  IF o.name = "add_business_group" THEN <<config.business_groups>>
        ELSE IF gs = << >> THEN << >>
        ELSE IF o.name = "add_middleware_to_group" THEN <<gs[1].middlewares>>
        ELSE IF o.name = "add_backend_to_group" THEN <<gs[1].backend_containers>>
        ELSE LET ms == WithId(gs[1].middlewares, o.middleware_id)
             IN  IF ms = << >> THEN << >> ELSE <<ms[1].backend_containers>>

\* The entity a lookup by id finds in list: the first with the id, in a
\* sequence of one; << >> when none has it.
Found(list, id) ==
    IF WithId(list, id) = << >> THEN << >> ELSE <<WithId(list, id)[1]>>

\* The caller's last two calls were an add_business_group that returned Ok
\* and a get_business_group of the added group's id that returned Ok.
AddedThenGot(c) ==
    /\ Done(c) /\ op[c].name = "get_business_group" /\ res[c] = Ok
    /\ prev[c].op.name = "add_business_group"
    /\ prev[c].res = Ok
    /\ prev[c].op.entity.id = op[c].group_id

\* C22: get after add returns the added entity.  A get_business_group(g.id)
\* right after an add_business_group(g) that returned Ok returns Some of a
\* group equal to g, children included; and after an add of a middleware or
\* a backend that returned Ok a lookup by its id in the persisted list of the
\* parent the call resolved finds an entity equal to the added one.
C22_GetAfterAdd ==
    \A c \in Callers :
        /\ AddedThenGot(c) => ret[c] = <<prev[c].op.entity>>
        /\ (Done(c) /\ res[c] = Ok
                /\ op[c].name \in AddNames \ {"add_business_group"}) =>
               /\ Readable(file)
               /\ ParentList(op[c], Parsed(file)) # << >>
               /\ Found(ParentList(op[c], Parsed(file))[1], op[c].entity.id)
                      = <<op[c].entity>>

\* The groups a load of the store f returns: none when there is no file.
StoredGroups(f) == IF f.exists THEN Parsed(f).business_groups ELSE << >>

\* The caller's last two calls were an add_business_group that returned Ok
\* and a get_all_business_groups that returned Ok.
AddedThenListed(c) ==
    /\ Done(c) /\ op[c].name = "get_all_business_groups" /\ res[c] = Ok
    /\ prev[c].op.name = "add_business_group"
    /\ prev[c].res = Ok

\* C23: add appends and list keeps the stored order.  The list a
\* get_all_business_groups returns right after an add_business_group(g) that
\* returned Ok is the list stored before the add followed by g; a child add
\* that returned Ok leaves in the store the parent's loaded list followed by
\* the new entity; a child add whose group or middleware is not in the loaded
\* config returns the NotFound of that level without saving; and
\* add_business_group returns no NotFound.
C23_AddAppends ==
    \A c \in Callers :
        /\ AddedThenListed(c) =>
               ret[c] = Append(StoredGroups(prev[c].before), prev[c].op.entity)
        /\ (Done(c) /\ op[c].name = "add_business_group") =>
               res[c].kind # "NotFound"
        /\ (Loaded(c) /\ op[c].name \in AddNames \ {"add_business_group"}) =>
               IF ParentList(op[c], loaded[c]) # << >>
               THEN /\ res[c] = Ok
                    /\ Readable(file)
                    /\ ParentList(op[c], Parsed(file)) =
                           <<Append(ParentList(op[c], loaded[c])[1], op[c].entity)>>
               ELSE /\ res[c] = IF WithId(loaded[c].business_groups, op[c].group_id) = << >>
                                THEN NotFound("group", op[c].group_id)
                                ELSE NotFound("middleware", op[c].middleware_id)
                    /\ nsaves[c] = 0
                    /\ file = before[c]

\* get_all_business_groups returned three groups right after an
\* add_business_group that returned Ok on a store of two: the two stored
\* groups in their order and the added one last.
C23_Witness ==
    \E c \in Callers :
        /\ AddedThenListed(c)
        /\ Len(StoredGroups(prev[c].before)) = 2
        /\ Len(ret[c]) = 3
        /\ ret[c][3] = prev[c].op.entity
        /\ ret[c][1].id = "g1"

\* The caller's last two calls were the same update, and in both the load
\* and the save (if it came to one) got through.
UpdatedTwice(c) ==
    /\ Loaded(c) /\ op[c].name \in UpdateNames
    /\ prev[c].op = op[c]
    /\ prev[c].res.kind \in {"Ok", "NotFound"}

\* C24: update is idempotent at every level.  The second of two equal
\* update_business_group, update_middleware or update_backend calls in a row
\* returns what the first returned and leaves the store as the first left it.
C24_UpdateIdempotent ==
    \A c \in Callers :
        UpdatedTwice(c) =>
            /\ res[c] = prev[c].res
            /\ file = before[c]

\* update_middleware(g1, m1 with one backend) returned Ok twice in a row on a
\* store whose m1 was another: the store holds the new m1 at its place, as
\* after the first call.
C24_Witness ==
    \E c \in Callers :
        /\ UpdatedTwice(c) /\ res[c] = Ok
        /\ op[c].name = "update_middleware"
        /\ Len(op[c].entity.backend_containers) = 1
        /\ Readable(prev[c].before)
        /\ Found(Parsed(prev[c].before).business_groups[1].middlewares, op[c].entity.id)
               # <<op[c].entity>>
        /\ Readable(file)
        /\ Found(Parsed(file).business_groups[1].middlewares, op[c].entity.id)
               = <<op[c].entity>>
        /\ file = before[c]

\* The first n calls of h returned Ok.
AllOk(h, n) == \A k \in 1..n : h[k].res = Ok

\* C25: the scenario on an empty store.  After add group G1, add middleware
\* M1 to G1 and add backend B1 to M1 of G1, each returning Ok, a
\* get_all_business_groups that returns Ok returns exactly [G1], with G1's
\* middlewares exactly [M1], M1's backends exactly [B1] and no direct
\* backend of G1; and after a delete_business_group(G1) that returned Ok, a
\* get_all_business_groups that returns Ok returns the empty list.
C25_Scenario ==
    \A c \in Callers :
        LET h == History(c)
        IN  /\ (Len(h) = 4 /\ AllOk(h, 4)) =>
                  /\ Len(ret[c]) = 1
                  /\ ret[c][1] = [h[1].op.entity EXCEPT !.middlewares = ret[c][1].middlewares]
                  /\ Len(ret[c][1].middlewares) = 1
                  /\ ret[c][1].middlewares[1] =
                        [h[2].op.entity EXCEPT !.backend_containers = <<h[3].op.entity>>]
                  /\ ret[c][1].backend_containers = << >>
            /\ (Len(h) >= 6 /\ AllOk(h, 5) /\ h[Len(h)].res = Ok) =>
                  ret[c] = << >>

\* The six calls of the scenario returned Ok: the first list returned one
\* group holding one middleware holding one backend, the second none.
C25_Witness ==
    \E c \in Callers :
        /\ Len(History(c)) = 6 /\ AllOk(History(c), 6)
        /\ Len(History(c)[4].ret) = 1
        /\ Len(History(c)[4].ret[1].middlewares[1].backend_containers) = 1
        /\ ret[c] = << >>

\* The caller c has made the one load_config of its call, on no store, and
\* has begun no save_config.
LoadedNoStore(c) ==
    /\ ~before[c].exists
    /\ nloads[c] = 1 /\ nsaves[c] = 0
    /\ pc[c] \in {"save", "done"}

\* C26: loading an absent store is not an error.  With no store, load_config
\* returns a config with no group and no selected identifier and creates no
\* file; get_all_business_groups then returns Ok with the empty list and
\* get_business_group returns Ok with None, whatever the id.
C26_AbsentStoreIsDefault ==
    \A c \in Callers :
        LoadedNoStore(c) =>
            /\ res[c].kind \notin {"IoFailure", "Serialization"}
            /\ loaded[c].business_groups = << >>
            /\ loaded[c].selected_group_id = "null"
            /\ loaded[c].selected_middleware_id = "null"
            /\ loaded[c].selected_backend_id = "null"
            /\ ~file.exists
            /\ op[c].name \in {"get_all_business_groups", "get_business_group"} =>
                  /\ Done(c) /\ res[c] = Ok
                  /\ ret[c] = << >>

\* get_business_group(g1) returned Ok with None on no store, and there is
\* still no store.
C26_Witness ==
    \E c \in Callers :
        /\ LoadedNoStore(c) /\ Done(c)
        /\ op[c].name = "get_business_group" /\ op[c].group_id = "g1"
        /\ res[c] = Ok /\ ret[c] = << >>
        /\ ~file.exists

\* The caller's last two calls were an export_config(doc, p) that returned Ok
\* and an import_config(p) whose read of the file did not fail.
ExportedThenImported(c) ==
    /\ Done(c) /\ op[c].name = "import_config"
    /\ prev[c].op.name = "export_config"
    /\ prev[c].op.path = op[c].path
    /\ prev[c].res = Ok
    /\ res[c].kind # "IoFailure"

\* C27 as stated: export and import are a round trip, and neither changes
\* the store, whatever the path: an import_config(p) right after an
\* export_config(doc, p) that returned Ok returns Ok(doc), and after every
\* export_config and import_config the file at config_path is what it was
\* when the call began.
C27_RoundTripAnyPath ==
    \A c \in Callers :
        /\ ExportedThenImported(c) =>
               res[c] = Ok /\ ret[c] = <<prev[c].op.entity>>
        /\ (Done(c) /\ op[c].name \in {"export_config", "import_config"}) =>
               file = before[c]

\* C27 amended: export and import are a round trip whatever the path, and
\* neither changes the store when the path is not that of the store: an
\* import_config(p) right after an export_config(doc, p) that returned Ok
\* returns Ok(doc); after every import_config, and after every export_config
\* to a path other than config_path, failed ones included, the file at
\* config_path is what it was when the call began.
C27_RoundTrip ==
    \A c \in Callers :
        /\ ExportedThenImported(c) =>
               res[c] = Ok /\ ret[c] = <<prev[c].op.entity>>
        /\ (Done(c) /\ op[c].name = "import_config") => file = before[c]
        /\ (op[c].name = "export_config" /\ op[c].path # "config") =>
               file = before[c]

\* export_config wrote a document at the other path and import_config of
\* that path returned the document; the store, which holds another
\* document, is as it was.
C27_Witness ==
    \E c \in Callers :
        /\ ExportedThenImported(c) /\ op[c].path = "backup"
        /\ res[c] = Ok /\ ret[c] = <<prev[c].op.entity>>
        /\ other = FileOf(Serialize(prev[c].op.entity))
        /\ file.exists /\ file = prev[c].before
        /\ file # other

\* The file the restore_config of the caller c imports, as it was when the
\* call began.
Imported(c) == IF op[c].path = "config" THEN before[c] ELSE other

\* The caller's last two calls were a restore_config that returned Ok and a
\* load_config whose read of the store did not fail.
RestoredThenLoaded(c) ==
    /\ Done(c) /\ op[c].name = "load_config"
    /\ prev[c].op.name = "restore_config"
    /\ prev[c].res = Ok
    /\ res[c].kind # "IoFailure"

\* C28: restore imports a backup and makes it the active document.  A
\* restore_config(p) that returned Ok returned the document stored at p, and
\* a load_config right after it returns Ok with that document; a
\* restore_config(p) on a missing or malformed file at p returns an error
\* without any write, the store as it was.
C28_Restore ==
    \A c \in Callers :
        /\ (Done(c) /\ op[c].name = "restore_config") =>
               IF Readable(Imported(c))
               THEN res[c] = Ok =>
                        /\ ret[c] = <<Parsed(Imported(c))>>
                        /\ Readable(file)
                        /\ Parsed(file) = Parsed(Imported(c))
               ELSE /\ res[c] \in {IoFailure("read"),
                                   IF Imported(c).exists
                                   THEN SerializationError ELSE IoFailure("open")}
                    /\ nsaves[c] = 0
                    /\ file = before[c]
        /\ RestoredThenLoaded(c) =>
               /\ res[c] = Ok
               /\ ret[c] = <<Parsed(At(prev[c].op.path))>>

\* restore_config of the other path returned Ok on a store that held another
\* document, and the load_config after it returned the document of that path.
C28_Witness ==
    \E c \in Callers :
        /\ RestoredThenLoaded(c) /\ prev[c].op.path = "backup"
        /\ prev[c].before.exists /\ prev[c].before # other
        /\ res[c] = Ok
        /\ ret[c] = <<Parsed(other)>>
        /\ Len(ret[c][1].business_groups) = 2

StoreErrors == {"IoFailure", "Serialization"}

\* C29: no Entity Service operation retries.  A call makes at most one
\* load_config and one save_config (a restart: one of each per half, the
\* second half after the first), never a save without its load; and once a
\* load or a save has failed the call has returned that error with no store
\* access after the failing one: a failed load is the last load with no save
\* after it, a failed save is the last save with no load after it.
C29_NoRetry ==
    \A c \in Callers :
        /\ half[c] <= Halves(op[c].name)
        /\ nloads[c] <= half[c]
        /\ nsaves[c] <= nloads[c]
        /\ res[c].kind \in StoreErrors =>
              /\ Done(c)
              /\ IF res[c] \in {IoFailure("read"), SerializationError}
                 THEN nsaves[c] = nloads[c] - 1
                 ELSE nsaves[c] = nloads[c]
              /\ nloads[c] = half[c]

\* The start half of a restart failed to read the store its stop half had
\* saved: two loads and one save were made, and the call returned the error.
C29_Witness ==
    \E c \in Callers :
        /\ Done(c) /\ op[c].name \in RestartNames
        /\ res[c] = IoFailure("read")
        /\ half[c] = 2 /\ nloads[c] = 2 /\ nsaves[c] = 1

\* The identifiers the call o addresses its entity by: the group id, the
\* middleware id when one is given, the backend id of a backend call.
PathIds(o) ==
    {o.group_id}
        \cup (IF o.name \in MiddlewareCalls THEN {TargetMiddleware(o)}
              ELSE {o.middleware_id, TargetBackend(o)} \ {"None"})

\* The identifiers the message of an error carries: the one format argument
\* of its bail!.
Carried(r) == {r.id}

\* C30: every failure identifies the resource path.  A NotFound returned by
\* a middleware or a backend operation tells which level was missing and
\* carries every identifier of the path the call gave: the group id, the
\* middleware id when one was given, the backend id.
C30_NotFoundCarriesPath ==
    \A c \in Callers :
        (Done(c) /\ res[c].kind = "NotFound"
                 /\ op[c].name \in MiddlewareCalls \cup BackendCalls) =>
            /\ res[c].level \in {"group", "middleware", "backend"}
            /\ PathIds(op[c]) \subseteq Carried(res[c])

\* C31: the remote health call always yields Healthy or Unhealthy.
\* health_check returns Ok, with Healthy exactly when the request was
\* answered with status 200 and Unhealthy for any other outcome of the
\* request; it never returns an error.
C31_HealthNeverFails ==
    \A c \in Callers :
        (Done(c) /\ op[c].name = "health_check") =>
            /\ res[c] = Ok
            /\ ret[c] \in {<<"Healthy">>, <<"Unhealthy">>}
            /\ ret[c] = <<"Healthy">> <=>
                   (op[c].response.sent /\ op[c].response.status = 200)

\* The calls that save, by the list that holds their entity.
DeleteNames == {"delete_business_group", "delete_middleware", "delete_backend"}

GroupLevel == GroupNames \cup {"add_business_group", "delete_business_group"}

MiddlewareLevel == MiddlewareCalls \cup {"add_middleware_to_group"}

BackendLevel == BackendCalls \cup {"add_backend_to_middleware", "add_backend_to_group"}

\* The list in which the call o has its entity (id), without that entity:
\* an add's list without the pushed last element (after the call), a
\* delete's list without the entities of that id, the list of any other call
\* with the first entity of that id blanked to its id, in its place.
Others(o, list, id, after) ==
    IF o.name \in AddNames
    THEN IF after THEN SubSeq(list, 1, Len(list) - 1) ELSE list
    ELSE IF o.name \in DeleteNames THEN SelectSeq(list, LAMBDA e : e.id # id)
    ELSE [k \in 1..Len(list) |->
             IF k = Position(list, id) THEN [id |-> id] ELSE list[k]]

\* The document without the entity the call o is about: every field of the
\* config, every group, and in the group and the middleware on o's path
\* every field and every list but the one o's entity is in, which is kept
\* without that entity.
Frame(o, config, after) ==
    LET gs == config.business_groups
        g == Position(gs, TargetGroup(o))
        m == Position(gs[g].middlewares, o.middleware_id)
    IN  IF o.name \in GroupLevel
        THEN [config EXCEPT !.business_groups = Others(o, @, TargetGroup(o), after)]
        ELSE IF g = 0 THEN config
        ELSE IF o.name \in MiddlewareLevel
        THEN [config EXCEPT !.business_groups[g].middlewares =
                 Others(o, @, TargetMiddleware(o), after)]
        ELSE IF o.name = "add_backend_to_group" \/ o.middleware_id = "None"
        THEN [config EXCEPT !.business_groups[g].backend_containers =
                 Others(o, @, TargetBackend(o), after)]
        ELSE IF m = 0 THEN config
        ELSE [config EXCEPT
                 !.business_groups[g].middlewares[m].backend_containers =
                     Others(o, @, TargetBackend(o), after)]

\* C32: frame of a mutation.  When a call of a single caller that adds,
\* updates, deletes, starts, stops or restarts an entity has returned Ok, the
\* stored document is the one the call began on (the default one when there
\* was no store) in everything but that entity: the non-tree fields, every
\* group, and on the entity's path every field and list of the group and of
\* the middleware, the entity's own list with its other elements in their
\* places (a delete takes out every entity of the id, C35).
C32_Frame ==
    \A c \in Callers :
        (Done(c) /\ res[c] = Ok
            /\ op[c].name \in GroupLevel \cup MiddlewareLevel \cup BackendLevel) =>
            /\ Readable(file)
            /\ With(IF before[c].exists THEN Parsed(before[c]) ELSE loaded[c],
                    LAMBDA b : Frame(op[c], b, FALSE) = Frame(op[c], Parsed(file), TRUE))

\* A delete_backend of the direct b1 of g1 returned Ok on the tree in which
\* the second middleware m1 of g1 has two backends b1 and the store holds a
\* second group g1: the direct list is empty and the rest is as it was.
C32_Witness ==
    \E c \in Callers :
        /\ Done(c) /\ res[c] = Ok
        /\ op[c] = Op("delete_backend", "g1", "None", "b1", NoEntity)
        /\ before[c] = FileOf(Serialize(Duplicates))
        /\ Parsed(file) = [Duplicates EXCEPT !.business_groups[1].backend_containers = << >>]

\* The statuses below an entity: of the backends of a list, in list order,
\* and of the middlewares of a list, each with those of its backends.
StatusesOf(bs) == [k \in 1..Len(bs) |-> bs[k].status]

StatusesBelow(ms) ==
    [k \in 1..Len(ms) |-> <<ms[k].status, StatusesOf(ms[k].backend_containers)>>]

GroupLifecycle ==
    {"start_business_group", "stop_business_group", "restart_business_group"}

MiddlewareLifecycle == {"start_middleware", "stop_middleware", "restart_middleware"}

\* The group, and the middleware, the call o addresses in config (the first
\* of the id, as the lookup finds it).
GroupOf(o, config) == Found(config.business_groups, o.group_id)[1]

MiddlewareOf(o, config) == Found(GroupOf(o, config).middlewares, o.middleware_id)[1]

\* C33: status changes do not cascade.  When a start, stop or restart of a
\* group has returned Ok, each middleware of the group, each backend of
\* these and each direct backend of the group has the status it had before
\* the call; when a start, stop or restart of a middleware has returned Ok,
\* each of its backends and its group have the status they had before.
C33_NoCascade ==
    \A c \in Callers :
        (Done(c) /\ res[c] = Ok) =>
            With(<<Parsed(before[c]), Parsed(file)>>,
                 LAMBDA d :
                    /\ op[c].name \in GroupLifecycle =>
                        /\ StatusesBelow(GroupOf(op[c], d[2]).middlewares) =
                               StatusesBelow(GroupOf(op[c], d[1]).middlewares)
                        /\ StatusesOf(GroupOf(op[c], d[2]).backend_containers) =
                               StatusesOf(GroupOf(op[c], d[1]).backend_containers)
                    /\ op[c].name \in MiddlewareLifecycle =>
                        /\ GroupOf(op[c], d[2]).status = GroupOf(op[c], d[1]).status
                        /\ StatusesOf(MiddlewareOf(op[c], d[2]).backend_containers) =
                               StatusesOf(MiddlewareOf(op[c], d[1]).backend_containers))

\* A start of a group, or of a middleware, that was Stopped with Stopped
\* containers below it returned Ok: it is Running and they are Stopped.
C33_Witness ==
    \E c \in Callers :
        /\ Done(c) /\ res[c] = Ok
        /\ before[c] = FileOf(Serialize(Tree("Stopped", "Unknown")))
        /\ \/ /\ op[c].name = "start_business_group"
              /\ GroupOf(op[c], Parsed(file)).status = "Running"
              /\ StatusesBelow(GroupOf(op[c], Parsed(file)).middlewares) =
                     <<(<<"Stopped", <<"Stopped">> >>)>>
           \/ /\ op[c].name = "start_middleware"
              /\ MiddlewareOf(op[c], Parsed(file)).status = "Running"
              /\ StatusesOf(MiddlewareOf(op[c], Parsed(file)).backend_containers) =
                     <<"Stopped">>

\* The caller's last two calls were an add of a middleware or of a direct
\* backend to a group that returned Ok and an update_business_group that
\* returned Ok, of that group, with a group that does not carry the added
\* entity's id in the list the add pushed it on.
AddedThenUpdated(c) ==
    /\ Done(c) /\ res[c] = Ok /\ op[c].name = "update_business_group"
    /\ prev[c].res = Ok
    /\ prev[c].op.name \in {"add_middleware_to_group", "add_backend_to_group"}
    /\ prev[c].op.group_id = op[c].entity.id
    /\ prev[c].op.entity.id \notin
           Ids(IF prev[c].op.name = "add_middleware_to_group"
               THEN op[c].entity.middlewares ELSE op[c].entity.backend_containers)

\* The ids of the list of the stored first group of id g on which the add
\* call o pushes.
StoredChildIds(o, f, g) ==
    With(Found(StoredGroups(f), g)[1],
         LAMBDA e : Ids(IF o.name = "add_middleware_to_group"
                        THEN e.middlewares ELSE e.backend_containers))

\* C34: update_business_group replaces the whole subtree.  When
\* update_business_group(g) has returned Ok, the stored first group of g's id
\* has g's middleware list and g's direct backend list; and when the single
\* caller's call before it added to that group a middleware or a direct
\* backend whose id g does not carry, the entity was in the store when the
\* update began and is not in the store after it.
C34_UpdateReplacesSubtree ==
    \A c \in Callers :
        /\ (Done(c) /\ res[c] = Ok /\ op[c].name = "update_business_group") =>
              /\ Readable(file)
              /\ With(Found(Parsed(file).business_groups, op[c].entity.id)[1],
                      LAMBDA e :
                         /\ e.middlewares = op[c].entity.middlewares
                         /\ e.backend_containers = op[c].entity.backend_containers)
        /\ AddedThenUpdated(c) =>
              /\ prev[c].op.entity.id \in
                     StoredChildIds(prev[c].op, before[c], op[c].entity.id)
              /\ prev[c].op.entity.id \notin
                     StoredChildIds(prev[c].op, file, op[c].entity.id)

\* After add_backend_to_group(g1, b1) on a stored g1 with the direct backend
\* b2, update_business_group with a g1 that carries the middleware m2 and no
\* backend returned Ok: the store had b1 and b2 below g1 and has neither.
C34_Witness ==
    \E c \in Callers :
        /\ AddedThenUpdated(c)
        /\ prev[c].op.name = "add_backend_to_group"
        /\ StoredChildIds(prev[c].op, before[c], "g1") = {"b1", "b2"}
        /\ StoredChildIds(prev[c].op, file, "g1") = {}
        /\ Ids(Found(StoredGroups(file), "g1")[1].middlewares) = {"m2"}

\* The list in which the call o has its entity in config: the groups, the
\* middlewares of the first group of o's group id, the backends of that
\* group or of its first middleware of o's middleware id; << >> when the
\* group or the middleware is not there.
ListOf(o, config) ==
    LET gs == WithId(config.business_groups, TargetGroup(o))
    IN  IF o.name \in GroupLevel \cup {"get_business_group"}
        THEN config.business_groups
        ELSE IF gs = << >> THEN << >>
        ELSE IF o.name \in MiddlewareLevel THEN gs[1].middlewares
        ELSE IF o.middleware_id = "None" THEN gs[1].backend_containers
        ELSE LET ms == WithId(gs[1].middlewares, o.middleware_id)
             IN  IF ms = << >> THEN << >> ELSE ms[1].backend_containers

\* The id the call o looks up in that list.
IdOf(o) ==
    IF o.name \in GroupLevel \cup {"get_business_group"} THEN TargetGroup(o)
    ELSE IF o.name \in MiddlewareLevel THEN TargetMiddleware(o)
    ELSE TargetBackend(o)

\* What a call that acts on the entity e alone makes of it.
Acted(o, e) ==
    IF o.name \in UpdateNames THEN o.entity
    ELSE IF o.name \in StartNames THEN [e EXCEPT !.status = "Running"]
    ELSE [e EXCEPT !.status = "Stopped"]

\* C35: entities that share an identifier.  When a call has returned Ok and
\* the list it looked its entity up in held several entities of the id: a
\* get returns the first of them and leaves the store as it was; an update,
\* a start and a stop leave the list with its first entity of the id
\* updated, Running and Stopped and every other element, the later ones of
\* the id among them, as it was; a delete leaves the list without any entity
\* of the id and with the others in their order.
C35_SharedIds ==
    \A c \in Callers :
        (Done(c) /\ res[c] = Ok /\ Readable(before[c])
            /\ Len(WithId(ListOf(op[c], Parsed(before[c])), IdOf(op[c]))) > 1) =>
            With(<<ListOf(op[c], Parsed(before[c])), ListOf(op[c], Parsed(file)),
                   Position(ListOf(op[c], Parsed(before[c])), IdOf(op[c]))>>,
                 LAMBDA l :
                    /\ op[c].name = "get_business_group" =>
                          ret[c] = <<l[1][l[3]]>> /\ file = before[c]
                    /\ op[c].name \in UpdateNames \cup StartNames \cup StopNames =>
                          l[2] = [l[1] EXCEPT ![l[3]] = Acted(op[c], @)]
                    /\ op[c].name \in DeleteNames =>
                          l[2] = SelectSeq(l[1], LAMBDA e : e.id # IdOf(op[c])))

\* On the store whose middleware m1 holds a Stopped b1, b2 and a second b1:
\* a start_backend of b1 returned Ok with the first b1 Running and the second
\* as it was, or a delete_backend of b1 returned Ok with b2 alone left.
C35_Witness ==
    \E c \in Callers :
        /\ Done(c) /\ res[c] = Ok
        /\ before[c] = FileOf(Serialize(DuplicateBackends))
        /\ op[c].middleware_id = "m1" /\ op[c].backend_id = "b1"
        /\ \/ /\ op[c].name = "start_backend"
              /\ StatusesOf(ListOf(op[c], Parsed(file))) = <<"Running", "Running", "Running">>
              /\ ListOf(op[c], Parsed(file))[3] = ListOf(op[c], Parsed(before[c]))[3]
              /\ ListOf(op[c], Parsed(file))[1] # ListOf(op[c], Parsed(before[c]))[1]
           \/ /\ op[c].name = "delete_backend"
              /\ Ids(ListOf(op[c], Parsed(file))) = {"b2"}

\* The delete call o deletes the entity the restart call r addresses, or the
\* group or the middleware above it.
DeletesUnder(o, r) ==
    /\ o.name \in DeleteNames /\ r.name \in RestartNames
    /\ o.group_id = r.group_id
    /\ \/ o.name = "delete_business_group"
       \/ /\ o.name = "delete_middleware"
          /\ r.name \in {"restart_middleware", "restart_backend"}
          /\ o.middleware_id = r.middleware_id
       \/ /\ o.name = "delete_backend" /\ r.name = "restart_backend"
          /\ o.middleware_id = r.middleware_id /\ o.backend_id = r.backend_id

\* The NotFound of the entity the delete call o deletes.
Deleted(o) ==
    CASE o.name = "delete_business_group" -> NotFound("group", o.group_id)
      [] o.name = "delete_middleware" -> NotFound("middleware", o.middleware_id)
      [] o.name = "delete_backend" -> NotFound("backend", o.backend_id)

\* C36: a delete between the two halves of a restart is not undone.  When a
\* restart has returned and another caller's delete of its entity, or of the
\* group or middleware above it, ran from its load_config to the Ok of its
\* save_config after the stop half of the restart had saved and before its
\* start half called load_config, then the restart made no second save and
\* returned the NotFound of the deleted entity (or, when the read of its
\* start half failed, that I/O error), and the store holds the document the
\* delete saved, without the entity.
C36_DeleteBetweenHalves ==
    \A c \in Callers : \A d \in Callers \ {c} :
        (/\ Done(c) /\ Done(d) /\ res[d] = Ok
         /\ DeletesUnder(op[d], op[c])
         /\ c \in between[d]) =>
            /\ res[c] \in {Deleted(op[d]), IoFailure("read")}
            /\ nsaves[c] = 1
            /\ file = FileOf(Serialize(mem[d]))
            /\ TargetStatus(op[c], Parsed(file)) = "-"

\* restart_business_group(g1) returned NotFound of the group after a
\* delete_business_group(g1) ran between its halves: the delete loaded the
\* group Stopped and the store has no group.
C36_Witness ==
    \E c \in Callers : \E d \in Callers \ {c} :
        /\ Done(c) /\ Done(d) /\ res[d] = Ok /\ c \in between[d]
        /\ op[c].name = "restart_business_group"
        /\ op[d].name = "delete_business_group"
        /\ loaded[d].business_groups[1].status = "Stopped"
        /\ res[c] = NotFound("group", "g1")
        /\ Parsed(file).business_groups = << >>

\* C37: start and restart leave Running, stop leaves Stopped.  When a start
\* or a restart of a single caller has returned Ok, the entity it addressed
\* is stored Running, and when a stop has returned Ok it is stored Stopped,
\* whichever of the five statuses it had; and the same start, or stop, called
\* again on the store it left returns Ok and leaves that store as it is.
C37_StartStopOutcome ==
    \A c \in Callers :
        (Done(c) /\ res[c] = Ok
            /\ op[c].name \in StartNames \cup StopNames \cup RestartNames) =>
            /\ Readable(before[c]) /\ Readable(file)
            /\ TargetStatus(op[c], Parsed(before[c])) \in GroupStatus
            /\ TargetStatus(op[c], Parsed(file)) =
                   IF op[c].name \in StopNames THEN "Stopped" ELSE "Running"
            /\ op[c].name \in StartNames \cup StopNames =>
                   \A now \in Timestamps :
                       Run(op[c], file, now) = [res |-> Ok, file |-> file]

\* A stop of a group that was stored Starting returned Ok: the group is
\* stored Stopped.
C37_Witness ==
    \E c \in Callers :
        /\ Done(c) /\ res[c] = Ok
        /\ op[c].name = "stop_business_group"
        /\ TargetStatus(op[c], Parsed(before[c])) = "Starting"
        /\ TargetStatus(op[c], Parsed(file)) = "Stopped"

\* The errors of a load_config: read_to_string or from_str failed.
LoadErrors == {IoFailure("read"), SerializationError}

\* C38: an unreadable store is never overwritten.  A call of a service
\* function on a store that exists and does not parse returns a load error
\* without a save, and the store is what it was; and a call that returned a
\* load error, of a read that failed included, made no save after the load
\* that failed: the store is the one the call began on, or in the start half
\* of a restart the one its stop half saved.  The store is then never the
\* default empty document.
C38_UnreadableStoreKept ==
    \A c \in Callers :
        /\ (Done(c) /\ before[c].exists /\ ~Readable(before[c])) =>
              /\ res[c] \in LoadErrors
              /\ nsaves[c] = 0
              /\ file = before[c]
        /\ (Done(c) /\ res[c] \in LoadErrors) =>
              /\ nsaves[c] = nloads[c] - 1
              /\ file = IF half[c] = 1 THEN before[c] ELSE FileOf(Serialize(mem[c]))
              /\ \A now \in Timestamps :
                    file = FileOf(Serialize(ConfigDefault(now))) => file = before[c]

\* add_business_group on a store cut half way returned the parse error and
\* the store is the cut one.
C38_Witness ==
    \E c \in Callers :
        /\ Done(c) /\ op[c].name = "add_business_group"
        /\ before[c] = Truncated(FileOf(Serialize(TwoGroups)))
        /\ res[c] = SerializationError
        /\ nsaves[c] = 0
        /\ file = before[c]

=============================================================================
